---- MODULE Spec2Model ----
(***************************************************************************)
(* Model of the pull-request review engine of presubmitai-salesforce.      *)
(*                                                                         *)
(*   Spec        handlePullRequest (src/src/pull_request.ts 24-422): one   *)
(*               run after another against a host whose commit list,      *)
(*               file list and issue comments persist between runs.        *)
(*                                                                         *)
(* Commit shas are the naturals 1..MaxCommits (oldest first), the base sha *)
(* of the pull request is 0.  A host call is one step; a host write or an  *)
(* analysis call either takes effect or throws.                            *)
(***************************************************************************)
EXTENDS Integers, Sequences, FiniteSets, TLC

\* ------------------------------------------------------------------ bounds
MaxCommits == 3
MaxRuns == 3
MaxFindings == 2           \* findings one analysis returns
MaxSubmits == 2            \* submitReview calls in a row on one PR
MaxCap == 2                \* configured values of maxComments: 1 and MaxCap
SmallCodeblockLines == 3   \* a configured REVIEW_MAX_CODEBLOCK_LINES
DefaultCodeblockLines == 60  \* maxCodeblockLines when not configured
MaxFaults == 2             \* host calls that fail within one submitReview call
MaxBatchFiles == 3        \* files handed to batchFilesByChars
MaxDirs == 3              \* directory segments of a file name
MaxPieces == 2            \* pieces of a rationale text
MaxBodyWords == 4         \* words of a PR description

\* ------------------------------------------------------- generic helpers
Range(s) == {s[i] : i \in 1..Len(s)}

RECURSIVE Reverse(_)
Reverse(s) == IF s = <<>> THEN <<>> ELSE Append(Reverse(Tail(s)), Head(s))

Last(s) == s[Len(s)]

\* Array.prototype.filter with a membership test on one field.
RECURSIVE FilterIn(_, _)
FilterIn(s, keep) ==
  IF s = <<>> THEN <<>>
  ELSE IF Head(s) \in keep THEN <<Head(s)>> \o FilterIn(Tail(s), keep)
       ELSE FilterIn(Tail(s), keep)

RECURSIVE FilterNotIn(_, _)
FilterNotIn(s, drop) ==
  IF s = <<>> THEN <<>>
  ELSE IF Head(s) \in drop THEN FilterNotIn(Tail(s), drop)
       ELSE <<Head(s)>> \o FilterNotIn(Tail(s), drop)

\* Index of the first element satisfying a set membership, 0 when none
\* (Array.prototype.find).
RECURSIVE FindFrom(_, _, _)
FindFrom(s, i, ok) ==
  IF i > Len(s) THEN 0
  ELSE IF s[i] \in ok THEN i ELSE FindFrom(s, i + 1, ok)

\* ------------------------------------------------------------------ files
\* File of the PR file list: {filename, previous_filename?, status, patch?}.
\* docs abstracts whether the deterministic documentation generators
\* (buildCustomFieldsDoc / buildFlowsDoc / buildApexDoc) yield text for it.
\* path is the filename as filterFilesByScope reads it: its directory
\* segments and the ending of its last segment.
FileA == [filename |-> "src/a.ts", previous_filename |-> "", status |-> "modified", docs |-> FALSE,
          path |-> [dirs |-> <<"src">>, ext |-> ".ts"]]
FileN == [filename |-> "new.ts", previous_filename |-> "old.ts", status |-> "renamed", docs |-> FALSE,
          path |-> [dirs |-> <<>>, ext |-> ".ts"]]
FileF == [filename |-> "force-app/flows/F.flow-meta.xml", previous_filename |-> "", status |-> "added", docs |-> TRUE,
          path |-> [dirs |-> <<"force-app", "flows">>, ext |-> ".flow-meta.xml"]]

FileLists == { <<FileA>>, <<FileA, FileF>>, <<FileF, FileN, FileA>> }

\* File names a compare(base, head) response can list.
CompareNames == {"src/a.ts", "force-app/flows/F.flow-meta.xml", "gone.ts"}

FileNames(fs) == {fs[i].filename : i \in 1..Len(fs)}

\* --------------------------------------------------------- overview body
\* Body of an issue comment, reduced to the markers the code looks for:
\*   ov   contains OVERVIEW_MESSAGE_SIGNATURE
\*   doc  contains DOCUMENTATION_SIGNATURE
\*   open / close   contains PAYLOAD_TAG_OPEN / PAYLOAD_TAG_CLOSE
\*   commits        the array JSON-encoded between the tags
\*   lines          the text of an upserted comment, line by line
\*   form           what stands between the tags: "array" for the JSON the
\*                  code writes ({"commits": [...]}), or a damaged text
NoBody == [ov |-> FALSE, doc |-> FALSE, open |-> FALSE, close |-> FALSE, commits |-> <<>>,
           lines |-> <<>>, form |-> "array"]

\* Faulty variant of buildLoadingMessage: the overview signature is left out.
buildLoadingMessage_Unsigned == NoBody

buildLoadingMessage == [NoBody EXCEPT !.ov = TRUE]

\* Faulty variant of buildOverviewMessage: only the last sha is stored.
buildOverviewMessage_LastOnly(shas) ==
  [ov |-> TRUE, doc |-> FALSE, open |-> TRUE, close |-> TRUE,
   commits |-> IF shas = <<>> THEN <<>> ELSE <<shas[Len(shas)]>>,
   lines |-> <<>>, form |-> "array"]

buildOverviewMessage(shas) ==
  [NoBody EXCEPT !.ov = TRUE, !.open = TRUE, !.close = TRUE, !.commits = shas]

DocBody == [NoBody EXCEPT !.doc = TRUE]

\* Ways an overview body can be damaged after it was written: the close tag
\* is lost, the only close tag stands before the open tag, the text between
\* the tags is not JSON, is the JSON null, or is JSON whose commits is not
\* an array.
PayloadDamage == {"noClose", "closeFirst", "notJson", "null", "notArray"}

Damaged(body, kind) ==
  IF kind = "noClose" THEN [body EXCEPT !.close = FALSE] ELSE [body EXCEPT !.form = kind]

\* payloadJson, lines 101-109: "{}" unless both tags are present and the
\* close tag is found after the open tag.
PayloadJson(body) ==
  IF body.open /\ body.close /\ body.form # "closeFirst" THEN body.form ELSE "{}"

\* Faulty variant of DecodeCommits: the commits are read whatever surrounds them.
DecodeCommits_Trusting(body) == body.commits

\* Payload decoding, lines 100-114: JSON.parse throws on text that is not
\* JSON and reading .commits of null throws; both are caught and leave
\* commitsReviewed empty.  Otherwise commits is taken when it is an array.
DecodeCommits(body) ==
  CASE PayloadJson(body) = "array" -> body.commits
    [] PayloadJson(body) = "notArray" -> <<>>
    [] PayloadJson(body) = "{}" -> <<>>
    [] PayloadJson(body) \in {"notJson", "null"} -> <<>>

\* lastCommitReviewed; 0 stands for null.
LastCommitReviewedOf(reviewed) ==
  IF Len(reviewed) > 0 THEN reviewed[Len(reviewed)] ELSE 0

\* Faulty variant of CommitsToReviewOf: nothing is filtered out.
CommitsToReviewOf_NoFilter(cs, reviewed) == cs

\* Faulty variant of CommitsToReviewOf: the commits listed after the last
\* stored one, instead of the commits that are not stored.
CommitsToReviewOf_AfterLast(cs, reviewed) ==
  IF Len(reviewed) > 0 /\ \E i \in 1..Len(cs) : cs[i] = reviewed[Len(reviewed)]
  THEN SubSeq(cs, (CHOOSE i \in 1..Len(cs) : cs[i] = reviewed[Len(reviewed)]) + 1, Len(cs))
  ELSE cs

\* commitsToReview = commitsReviewed.length ? commits.filter(...) : commits
CommitsToReviewOf(cs, reviewed) ==
  IF Len(reviewed) > 0 THEN FilterNotIn(cs, Range(reviewed)) ELSE cs

\* Faulty variant of IncrementalFilter: every PR file is kept.
IncrementalFilter_KeepAll(fs, names) == fs

\* filesToReview.filter(f => incrementalDiff.data.files.some(f2 => f2.filename === f.filename))
RECURSIVE IncrementalFilter(_, _)
IncrementalFilter(fs, names) ==
  IF fs = <<>> THEN <<>>
  ELSE IF Head(fs).filename \in names
       THEN <<Head(fs)>> \o IncrementalFilter(Tail(fs), names)
       ELSE IncrementalFilter(Tail(fs), names)

\* combinedDocs is non-empty
HasDocs(fs) == \E i \in 1..Len(fs) : fs[i].docs

\* Directory names and file endings of the model, and toLowerCase on them.
DirNames == {"force-app", "flows", "Flows", "objects", "fields", "globalValueSets", "src"}
Endings == {".flow-meta.xml", ".Flow-Meta.XML", ".object-meta.xml", ".field-meta.xml", ".ts"}
toLowerCase(x) ==
  CASE x = "Flows" -> "flows"
    [] x = "globalValueSets" -> "globalvaluesets"
    [] x = ".Flow-Meta.XML" -> ".flow-meta.xml"
    [] x = "@PreSubmitAI" -> "@presubmitai"
    [] x = "SKIP" -> "skip"
    [] x = "ON" -> "on"
    [] x = "Off" -> "off"
    [] x = ".CLS" -> ".cls"
    [] OTHER -> x

\* n.includes('/d/'): a directory segment d with a slash on both sides, so
\* not the first segment of the name.
includesDir(p, d) == \E i \in 2..Len(p.dirs) : toLowerCase(p.dirs[i]) = d
\* n.endsWith(e): the ending of the name is e, or is a longer ending of
\* the model that ends with e.
endsWith(p, e) ==
  \/ toLowerCase(p.ext) = e
  \/ /\ e \in {"-meta.xml", ".xml"}
     /\ toLowerCase(p.ext) \in {".flow-meta.xml", ".object-meta.xml", ".field-meta.xml"}

\* filterFilesByScope, lines 1197-1200.
isFlow(p) == includesDir(p, "flows") /\ endsWith(p, ".flow-meta.xml")
isDataModel(p) ==
  \/ includesDir(p, "objects") /\ (endsWith(p, ".object-meta.xml") \/ includesDir(p, "fields"))
  \/ includesDir(p, "globalvaluesets")

IsFlow(f) == isFlow(f.path)
IsDataModel(f) == isDataModel(f.path)
Scopes == <<"data-model", "flows", "apex">>

InScope(f, scope) ==
  IF scope = "flows" THEN IsFlow(f)
  ELSE IF scope = "data-model" THEN IsDataModel(f)
  ELSE IF scope = "apex" THEN ~IsFlow(f) /\ ~IsDataModel(f)
  ELSE TRUE

filterFilesByScope(fs, scope) == {i \in 1..Len(fs) : InScope(fs[i], scope)}

\* ------------------------------------------------- comment text, by lines
\* A line of a comment body.  t is the kind of line; key identifies what
\* the line says (the upsert key of a signature line, the path and line of a
\* "Context:" line, the words of a text line in hdr).
NoKey == [kind |-> "", file |-> "", line |-> 0, hdr |-> ""]
Text(x) == [t |-> "text", key |-> [NoKey EXCEPT !.hdr = x]]
Blank == [t |-> "blank", key |-> NoKey]
Fence == [t |-> "fence", key |-> NoKey]            \* a line starting with three backticks
TruncMarker == [t |-> "marker", key |-> NoKey]     \* "... (truncated; more lines omitted) ..."
CommentSig == [t |-> "csig", key |-> NoKey]        \* COMMENT_SIGNATURE
FileLine(p) == [t |-> "file", key |-> [NoKey EXCEPT !.file = p]]            \* "File: <p>"
ContextLine(p, l) == [t |-> "ctx", key |-> [NoKey EXCEPT !.file = p, !.line = l]]  \* "Context: <p>:<l>"
RenamedLine(p) == [t |-> "renamed", key |-> [NoKey EXCEPT !.file = p]]      \* "Renamed: a -> b"

\* truncateCodeBlocks (comments.ts): inside a fence only the first maxLines
\* lines are kept, line maxLines+1 becomes a marker, the rest are dropped
\* until the closing fence.
RECURSIVE TruncFrom(_, _, _, _)
TruncFrom(ls, maxLines, inFence, codeLines) ==
  IF ls = <<>> THEN <<>>
  ELSE LET l == Head(ls) IN
    IF l.t = "fence"
    THEN <<l>> \o TruncFrom(Tail(ls), maxLines, ~inFence, IF inFence THEN codeLines ELSE 0)
    ELSE IF inFence
      THEN IF codeLines + 1 <= maxLines
           THEN <<l>> \o TruncFrom(Tail(ls), maxLines, TRUE, codeLines + 1)
           ELSE IF codeLines + 1 = maxLines + 1
                THEN <<TruncMarker>> \o TruncFrom(Tail(ls), maxLines, TRUE, codeLines + 1)
                ELSE TruncFrom(Tail(ls), maxLines, TRUE, codeLines + 1)
      ELSE <<l>> \o TruncFrom(Tail(ls), maxLines, FALSE, codeLines)

truncateCodeBlocks(ls, maxLines) == TruncFrom(ls, maxLines, FALSE, 0)

\* buildComment: processed + "\n\n" + COMMENT_SIGNATURE (which starts with "\n")
buildComment(ls, maxLines) == truncateCodeBlocks(ls, maxLines) \o <<Blank, Blank, CommentSig>>

\* First line of a text, trimmed and lower-cased (the model's words are lower case).
FirstLine(ls) ==
  IF ls = <<>> THEN ""
  ELSE IF ls[1].t = "text" THEN ls[1].key.hdr
  ELSE IF ls[1].t = "fence" THEN "fence"
  ELSE ""

\* makeStableKey: kind|file|(line ?? 0)|(header || firstLine).slice(0, 80)
makeStableKey(kind, file, line, header, contentLines) ==
  [kind |-> kind, file |-> file, line |-> line,
   hdr |-> IF header # "" THEN header ELSE FirstLine(contentLines)]

\* makeUpsertSignature: the marker line "<!-- presubmit.ai: upsert:<hash>:<key> -->";
\* the hash is a function of the key, which the marker carries verbatim.
makeUpsertSignature(kind, file, line, header, contentLines) ==
  [t |-> "sig", key |-> makeStableKey(kind, file, line, header, contentLines)]

\* Faulty variant of UpsertTarget: the lookup never finds a comment.
UpsertTarget_NeverFound(cs, sig) == 0

\* upsertIssueCommentBySignature, the lookup: index of the first issue
\* comment whose body includes the signature, 0 when none.
UpsertTarget(cs, sig) ==
  IF \E i \in 1..Len(cs) : sig \in Range(cs[i].body.lines)
  THEN CHOOSE i \in 1..Len(cs) :
         /\ sig \in Range(cs[i].body.lines)
         /\ \A j \in 1..(i - 1) : sig \notin Range(cs[j].body.lines)
  ELSE 0

\* ---------------------------------------------------------------- findings
\* AIComment: {file, start_line?, end_line?, highlighted_code, header,
\* content, label, critical}; 0 stands for an absent line number.  content
\* is its lines, its trimmed length and whether it holds a risk keyword.
PlainContent == [lines |-> <<Text("unsanitized input reaches the query")>>, len |-> 35, kw |-> FALSE]
OpenFenceContent == [lines |-> <<Fence, Text("db.query(q)")>>, len |-> 15, kw |-> FALSE]
OtherContent == [lines |-> <<Text("the handler swallows the error")>>, len |-> 30, kw |-> FALSE]

FileNote == [file |-> "src/a.ts", start_line |-> 0, end_line |-> 0, hl |-> FALSE,
             header |-> "h", content |-> PlainContent, label |-> "", critical |-> FALSE]
\* The file-level finding of FileNote again, reworded: same file, same header.
FileNoteReworded == [file |-> "src/a.ts", start_line |-> 0, end_line |-> 0, hl |-> FALSE,
                     header |-> "h", content |-> OtherContent, label |-> "", critical |-> FALSE]
SingleLine == [file |-> "src/a.ts", start_line |-> 5, end_line |-> 5, hl |-> FALSE,
               header |-> "h5", content |-> PlainContent, label |-> "security", critical |-> FALSE]
MultiLine == [file |-> "src/a.ts", start_line |-> 3, end_line |-> 5, hl |-> TRUE,
              header |-> "h35", content |-> PlainContent, label |-> "bug", critical |-> FALSE]
OnRenamed == [file |-> "new.ts", start_line |-> 0, end_line |-> 7, hl |-> FALSE,
              header |-> "", content |-> OpenFenceContent, label |-> "", critical |-> TRUE]
LowValue == [file |-> "src/a.ts", start_line |-> 0, end_line |-> 9, hl |-> FALSE,
             header |-> "h9", content |-> PlainContent, label |-> "style", critical |-> FALSE]

Findings == {FileNote, FileNoteReworded, SingleLine, MultiLine, OnRenamed, LowValue}

\* ------------------------------------------------- worth-posting filter
HIGH_VALUE_LABELS == {"security", "possible bug", "bug", "performance"}

\* hasCode: the content holds a code fence
HasCode(c) == \E i \in 1..Len(c.content.lines) : c.content.lines[i].t = "fence"

\* Lines 691-711 for one line-anchored finding: TRUE when it is pushed to
\* lineComments, FALSE when it is pushed to skippedComments.  Labels of the
\* model are lower case.
WorthPosting(c) ==
  LET contentLen == c.content.len
      isHighValue == c.critical \/ c.label \in HIGH_VALUE_LABELS
      isTypos == c.label = "typo"
      longEnough == contentLen >= 30
      isSubstantive == longEnough \/ HasCode(c) \/ c.content.kw \/ (c.critical /\ contentLen >= 10)
      minLen == IF isTypos THEN 10 ELSE 0
  IN IF isHighValue \/ isTypos
     THEN isSubstantive \/ contentLen >= minLen
     ELSE FALSE

\* Indexes (into comments) of the findings a predicate keeps, in order.
IndexesFrom(n, i, keep) ==
  SelectSeq([k \in 1..(IF n >= i THEN n - i + 1 ELSE 0) |-> i + k - 1],
            LAMBDA x : x \in keep)

\* comments.filter(c => !c.end_line)
FileComments(cs) == IndexesFrom(Len(cs), 1, {i \in 1..Len(cs) : cs[i].end_line = 0})

\* The loop of lines 684-712: <<lineComments, skippedComments>> as indexes.
FilterLine(cs) ==
  IndexesFrom(Len(cs), 1, {i \in 1..Len(cs) : cs[i].end_line # 0 /\ WorthPosting(cs[i])})
FilterSkipped(cs) ==
  IndexesFrom(Len(cs), 1, {i \in 1..Len(cs) : cs[i].end_line = 0 \/ ~WorthPosting(cs[i])})

\* Lines 715-720: the cap.
Slice(s, from, to) == [k \in 1..(IF to >= from THEN to - from + 1 ELSE 0) |-> s[from + k - 1]]
\* Faulty variant of CapLine: the cap is not applied.
CapLine_NoCap(line, cap) == line

CapLine(line, cap) == IF Len(line) > cap THEN Slice(line, 1, cap) ELSE line
CapSkipped(line, skipped, cap) ==
  IF Len(line) > cap THEN skipped \o Slice(line, cap + 1, Len(line)) ELSE skipped

\* ---------------------------------------------------------------- threads
\* Root comment of a review thread: {id, path, line, start_line}; relevant
\* is isThreadRelevant of its thread.
\* makeKey: path#(endLine ?? "")#(startLine ?? "")
makeKey(path, endLine, startLine) == [path |-> path, e |-> endLine, s |-> startLine]

\* threadsIndex.get(key): the Map keeps the last thread set under a key.
\* Index into threads of that thread, 0 when there is none.
ThreadAt(threads, key) ==
  IF \E i \in 1..Len(threads) : makeKey(threads[i].path, threads[i].line, threads[i].start_line) = key
  THEN CHOOSE i \in 1..Len(threads) :
         /\ makeKey(threads[i].path, threads[i].line, threads[i].start_line) = key
         /\ \A j \in (i + 1)..Len(threads) :
              makeKey(threads[j].path, threads[j].line, threads[j].start_line) # key
  ELSE 0

\* resolveReviewPath: a path that is some file's previous_filename resolves
\* to that file's filename.
resolveReviewPath(fs, p) ==
  IF \E i \in 1..Len(fs) : fs[i].previous_filename = p
  THEN fs[CHOOSE i \in 1..Len(fs) :
            /\ fs[i].previous_filename = p
            /\ \A j \in 1..(i - 1) : fs[j].previous_filename # p].filename
  ELSE p

\* findExistingThread(path, endLine, startLine)
findExistingThread(threads, path, endLine, startLine) ==
  IF endLine = 0 THEN 0 ELSE ThreadAt(threads, makeKey(path, endLine, startLine))

\* The thread a line-anchored finding resolves to (lines 726-731).
ThreadOfFinding(threads, fs, c) ==
  findExistingThread(threads, resolveReviewPath(fs, c.file), c.end_line, c.start_line)

\* anchorComments / replyCandidates as indexes into comments.
\* Faulty variant of AnchorComments: every inline finding is anchored anew.
AnchorComments_All(cs, line, threads, fs) == line

AnchorComments(cs, line, threads, fs) ==
  SelectSeq(line, LAMBDA i : ThreadOfFinding(threads, fs, cs[i]) = 0)
ReplyCandidates(cs, line, threads, fs) ==
  SelectSeq(line, LAMBDA i : ThreadOfFinding(threads, fs, cs[i]) # 0)

\* commentsData entry of an anchored finding (lines 733-740).
CommentData(c, fs, maxLines) ==
  [path |-> resolveReviewPath(fs, c.file),
   body |-> buildComment(c.content.lines, maxLines),
   line |-> c.end_line,
   start_line |-> IF c.start_line # 0 /\ c.start_line < c.end_line THEN c.start_line ELSE 0]

MAX_COMMENTS_PER_REVIEW == 50

\* Faulty variant of chunk: the whole list is one batch.
chunk_OneBatch(arr, size) == IF arr = <<>> THEN <<>> ELSE <<arr>>

\* chunk(arr, size)
RECURSIVE chunk(_, _)
chunk(arr, size) ==
  IF size <= 0 THEN <<arr>>
  ELSE IF arr = <<>> THEN <<>>
  ELSE IF Len(arr) <= size THEN <<arr>>
  ELSE <<Slice(arr, 1, size)>> \o chunk(Slice(arr, size + 1, Len(arr)), size)

\* Body of a file-level note (lines 656-664).
FileNoteSig(c, fs) ==
  makeUpsertSignature("file-note", resolveReviewPath(fs, c.file), 0, c.header, c.content.lines)

CodeBlock(c) == IF c.hl THEN <<Blank, Fence, Text("code"), Fence>> ELSE <<>>

FileNoteBody(c, fs, maxLines) ==
  buildComment(
    <<FileNoteSig(c, fs)>>
      \o (IF c.header # "" THEN <<Text(c.header), Blank>> ELSE <<>>)
      \o c.content.lines
      \o <<Blank, FileLine(resolveReviewPath(fs, c.file))>>
      \o CodeBlock(c),
    maxLines)

\* ------------------------------------------------------------------ state
VARIABLES
  hostCommits,       \* commit shas of the PR on the host, oldest first
  hostFiles,         \* PR file list on the host
  hostComments,      \* issue comments on the host: <<[id, body]>>
  nextId,            \* next comment id the host hands out
  covered,           \* shas of commit lists for which a review was posted
  runs,              \* number of runs started
  pc,                \* position of the current run in handlePullRequest
  dryRun, forceFull, \* IS_DRY_RUN, FORCE_FULL_REVIEW of the run
  titleUpdate,       \* allowTitleUpdate and the title mentions @presubmit
  headSha,           \* pull_request.head.sha of the event
  commits,           \* local array commits (shas)
  existingComments,  \* local snapshot of the issue comments
  overviewId,        \* overviewComment.id, 0 when undefined
  isIncremental,     \* isIncrementalReview
  files,             \* local PR file list
  filesToReview,
  commitsReviewed,
  lastCommitReviewed,
  compared,          \* "none" (no call) | "nofiles" | "files"
  compareFiles,      \* file names of the compare response
  commitsToReview,
  aliased,           \* commitsToReview is the same array object as commits
  scopeIdx,          \* index into Scopes of the review pass loop
  calls,             \* host writes and backend calls issued by the run
  \* ---- submitReview (SpecSubmit)
  hostThreads,       \* review-comment thread roots on the host
  maxComments,       \* config.maxComments
  maxCodeblockLines, \* config.maxCodeblockLines
  submits,           \* number of submitReview calls started
  spc,               \* position of the current call in submitReview
  srFiles,           \* parameter files
  srComments,        \* parameter comments (the findings)
  prThreads,         \* relevant threads listed at the start of the call
  lineComments,      \* indexes into srComments
  skippedComments,   \* indexes into srComments
  fi, ri, bi, fj,    \* loop indexes: file notes, replies, batches, fallback
  results,           \* per-comment outcomes of the fallback (TRUE = fulfilled)
  slog,              \* host write calls attempted by the call, in order
  createdSigs,       \* signatures of the PR-level comments created by upserts
  upsertedSigs,      \* signatures whose upsert has succeeded
  \* ---- helper functions and short procedures called on their own (SpecFn)
  fn,                \* the function called, "none" in the other specifications
  arg,               \* its arguments
  out,               \* its local state, then its result
  fpc,               \* "off" | "called" | "returned" | "threw"
  \* ---- procedures that run concurrently (SpecUpsert, SpecPool)
  workers,           \* per-invocation locals: position and what it holds
  pool               \* state the invocations share besides the host

hostVars == <<hostCommits, hostFiles, hostComments, nextId, covered, runs>>
runVars == <<pc, dryRun, forceFull, titleUpdate, headSha, commits, existingComments,
             overviewId, isIncremental, files, filesToReview, commitsReviewed,
             lastCommitReviewed, compared, compareFiles, commitsToReview, aliased,
             scopeIdx, calls>>
subVars == <<hostThreads, maxComments, maxCodeblockLines, submits, spc, srFiles,
             srComments, prThreads, lineComments, skippedComments, fi, ri, bi, fj,
             results, slog, createdSigs, upsertedSigs>>
fnVars == <<fn, arg, out, fpc>>
conVars == <<workers, pool>>
vars == <<hostVars, runVars, subVars, fnVars, conVars>>

\* ------------------------------------------------------------ run flags
\* Faulty variants of IS_DRY_RUN: the flag is never, or always, honoured.
IS_DRY_RUN_Off == FALSE
IS_DRY_RUN_On == TRUE

\* IS_DRY_RUN as the guards of handlePullRequest read it.
IS_DRY_RUN == dryRun

\* Faulty variant of isIncrementalReview: the forced-full flag is ignored.
isIncrementalReview_IgnoringForce(overview, force) == overview # 0

\* isIncrementalReview = !!overviewComment && !FORCE_FULL_REVIEW; overview is
\* the index of the overview comment in the listing, 0 when there is none.
isIncrementalReview(overview, force) == overview # 0 /\ ~force

\* ------------------------------------------------------------ host calls
Bodies(cs) == [i \in 1..Len(cs) |-> cs[i].body]

\* Faulty variant of FindOverview: the overview comment is never found.
FindOverview_NeverFound(cs) == 0

FindOverview(cs) == FindFrom(Bodies(cs), 1, {b \in Range(Bodies(cs)) : b.ov})
FindDoc(cs) == FindFrom(Bodies(cs), 1, {b \in Range(Bodies(cs)) : b.doc})

\* issues.updateComment: rewrites the body of the comment with that id.
UpdateComment(cs, id, body) ==
  [i \in 1..Len(cs) |-> IF cs[i].id = id THEN [cs[i] EXCEPT !.body = body] ELSE cs[i]]

\* issues.createComment
CreateComment(cs, id, body) == Append(cs, [id |-> id, body |-> body])

Log(c) == calls' = Append(calls, c)

Analysis == {"runSummaryPrompt", "runReviewPrompt"}
Writes == {"updateComment:loading", "createComment:loading", "pulls.update",
           "updateComment:walkthrough", "updateComment:doc", "createComment:doc",
           "updateComment:combined", "createReview", "submitReview",
           "createReplyForReviewComment", "createReviewComment"}

\* ------------------------------------------------------------------- Init
RunInit ==
  /\ pc = "idle" /\ dryRun = FALSE /\ forceFull = FALSE /\ titleUpdate = FALSE
  /\ headSha = 0 /\ commits = <<>> /\ existingComments = <<>> /\ overviewId = 0
  /\ isIncremental = FALSE /\ files = <<>> /\ filesToReview = <<>>
  /\ commitsReviewed = <<>> /\ lastCommitReviewed = 0 /\ compared = "none"
  /\ compareFiles = {} /\ commitsToReview = <<>> /\ aliased = FALSE
  /\ scopeIdx = 1 /\ calls = <<>>

SubInit ==
  /\ hostThreads = <<>> /\ maxComments = 1 /\ maxCodeblockLines = DefaultCodeblockLines /\ submits = 0
  /\ spc = "idle" /\ srFiles = <<>> /\ srComments = <<>> /\ prThreads = <<>>
  /\ lineComments = <<>> /\ skippedComments = <<>>
  /\ fi = 1 /\ ri = 1 /\ bi = 1 /\ fj = 1
  /\ results = <<>> /\ slog = <<>> /\ createdSigs = <<>> /\ upsertedSigs = {}

\* No helper is called on its own.
FnOff == fn = "none" /\ arg = <<>> /\ out = <<>> /\ fpc = "off"

\* No concurrent procedure is running.
ConOff == workers = <<>> /\ pool = <<>>

Init ==
  /\ hostCommits = <<1>>
  /\ hostFiles \in FileLists
  /\ hostComments = <<>>
  /\ nextId = 1
  /\ covered = {}
  /\ runs = 0
  /\ RunInit
  /\ SubInit
  /\ FnOff /\ ConOff

\* ---------------------------------------------------------------- actions
Idle == pc \in {"idle", "done", "aborted"}

\* A push adds a commit to the PR and may change its file list.
Push ==
  /\ Idle
  /\ Len(hostCommits) < MaxCommits
  /\ hostCommits' = Append(hostCommits, Len(hostCommits) + 1)
  /\ hostFiles' \in FileLists
  /\ UNCHANGED <<hostComments, nextId, covered, runs, runVars>>
  /\ UNCHANGED subVars
  /\ UNCHANGED <<fnVars, conVars>>

\* handlePullRequest, lines 24-94: context, commit list, issue comments,
\* overview lookup, PR files.
StartRun ==
  /\ Idle
  /\ runs < MaxRuns
  /\ runs' = runs + 1
  /\ dryRun' \in BOOLEAN
  /\ forceFull' \in BOOLEAN
  /\ titleUpdate' \in BOOLEAN
  /\ headSha' = Last(hostCommits)
  /\ commits' = hostCommits
  /\ existingComments' = hostComments
  /\ LET k == FindOverview(hostComments) IN
       /\ overviewId' = IF k = 0 THEN 0 ELSE hostComments[k].id
       /\ isIncremental' = isIncrementalReview(k, forceFull')
  /\ files' = hostFiles
  /\ filesToReview' = hostFiles
  /\ commitsReviewed' = <<>>
  /\ lastCommitReviewed' = 0
  /\ compared' = "none"
  /\ compareFiles' = {}
  /\ commitsToReview' = <<>>
  /\ aliased' = FALSE
  /\ scopeIdx' = 1
  /\ calls' = <<>>
  /\ pc' = "scope"
  /\ UNCHANGED <<hostCommits, hostFiles, hostComments, nextId, covered>>
  /\ UNCHANGED subVars
  /\ UNCHANGED <<fnVars, conVars>>

\* handlePullRequest, lines 96-142: stored payload, compare call, scope.
ResolveScope ==
  /\ pc = "scope"
  /\ LET k == FindOverview(existingComments)
         reviewed == IF isIncremental THEN DecodeCommits(existingComments[k].body) ELSE <<>>
         last == IF isIncremental THEN LastCommitReviewedOf(reviewed) ELSE 0
         needCompare == isIncremental /\ last # 0 /\ last # headSha
     IN
       /\ commitsReviewed' = reviewed
       /\ lastCommitReviewed' = last
       /\ \/ /\ needCompare
             /\ \E res \in {"threw", "nofiles", "files"} :
                  \/ /\ res = "threw"
                     /\ pc' = "aborted"
                     /\ compared' = "threw"
                     /\ UNCHANGED <<compareFiles, filesToReview, commitsToReview, aliased>>
                  \/ /\ res = "nofiles"
                     /\ compared' = "nofiles"
                     /\ UNCHANGED <<compareFiles, filesToReview>>
                     /\ commitsToReview' = CommitsToReviewOf(commits, reviewed)
                     /\ aliased' = (Len(reviewed) = 0)
                     /\ pc' = IF Len(commitsToReview') = 0 THEN "early" ELSE "loading"
                  \/ /\ res = "files"
                     /\ compared' = "files"
                     /\ compareFiles' \in SUBSET CompareNames
                     /\ filesToReview' = IncrementalFilter(filesToReview, compareFiles')
                     /\ commitsToReview' = CommitsToReviewOf(commits, reviewed)
                     /\ aliased' = (Len(reviewed) = 0)
                     /\ pc' = IF Len(commitsToReview') = 0 THEN "early" ELSE "loading"
          \/ /\ ~needCompare
             /\ UNCHANGED <<compared, compareFiles, filesToReview>>
             /\ commitsToReview' = CommitsToReviewOf(commits, reviewed)
             /\ aliased' = (Len(reviewed) = 0)
             /\ pc' = IF Len(commitsToReview') = 0 THEN "early" ELSE "loading"
  /\ UNCHANGED <<hostVars, dryRun, forceFull, titleUpdate, headSha, commits,
                 existingComments, overviewId, isIncremental, files, scopeIdx, calls>>
  /\ UNCHANGED subVars
  /\ UNCHANGED <<fnVars, conVars>>

\* Documentation comment create-or-update against the run's snapshot
\* existingComments (lines 151-172 and 339-360); a throw is caught.
DocWrite ==
  IF ~HasDocs(filesToReview) \/ IS_DRY_RUN
  THEN UNCHANGED <<hostComments, nextId, calls>>
  ELSE LET k == FindDoc(existingComments) IN
    IF k # 0
    THEN /\ Log("updateComment:doc")
         /\ \E ok \in BOOLEAN :
              hostComments' = IF ok THEN UpdateComment(hostComments, existingComments[k].id, DocBody)
                              ELSE hostComments
         /\ UNCHANGED nextId
    ELSE /\ Log("createComment:doc")
         /\ \E ok \in BOOLEAN :
              IF ok THEN /\ hostComments' = CreateComment(hostComments, nextId, DocBody)
                         /\ nextId' = nextId + 1
              ELSE UNCHANGED <<hostComments, nextId>>

\* No-new-commits path, lines 142-178.
EarlyExit ==
  /\ pc = "early"
  /\ DocWrite
  /\ pc' = "done"
  /\ UNCHANGED <<hostCommits, hostFiles, covered, runs, dryRun, forceFull, titleUpdate,
                 headSha, commits, existingComments, overviewId, isIncremental, files,
                 filesToReview, commitsReviewed, lastCommitReviewed, compared,
                 compareFiles, commitsToReview, aliased, scopeIdx>>
  /\ UNCHANGED subVars
  /\ UNCHANGED <<fnVars, conVars>>

\* Loading comment, lines 180-213.  buildLoadingMessage reverses the array
\* it is given in place (messages: for (const commit of commits.reverse())),
\* and that array is commits itself when commitsToReview aliases it.
PostLoading ==
  /\ pc = "loading"
  /\ commitsToReview' = Reverse(commitsToReview)
  /\ commits' = IF aliased THEN Reverse(commits) ELSE commits
  /\ IF IS_DRY_RUN
     THEN /\ pc' = "summary"
          /\ UNCHANGED <<hostComments, nextId, overviewId, calls>>
     ELSE IF overviewId # 0
     THEN /\ Log("updateComment:loading")
          /\ UNCHANGED <<nextId, overviewId>>
          /\ \E ok \in BOOLEAN :
               IF ok THEN /\ hostComments' = UpdateComment(hostComments, overviewId, buildLoadingMessage)
                          /\ pc' = "summary"
               ELSE /\ pc' = "aborted" /\ UNCHANGED hostComments
     ELSE /\ Log("createComment:loading")
          /\ \E ok \in BOOLEAN :
               IF ok THEN /\ hostComments' = CreateComment(hostComments, nextId, buildLoadingMessage)
                          /\ overviewId' = nextId
                          /\ nextId' = nextId + 1
                          /\ pc' = "summary"
               ELSE /\ pc' = "aborted" /\ UNCHANGED <<hostComments, nextId, overviewId>>
  /\ UNCHANGED <<hostCommits, hostFiles, covered, runs, dryRun, forceFull, titleUpdate,
                 headSha, existingComments, isIncremental, files, filesToReview,
                 commitsReviewed, lastCommitReviewed, compared, compareFiles, aliased,
                 scopeIdx>>
  /\ UNCHANGED subVars
  /\ UNCHANGED <<fnVars, conVars>>

\* runSummaryPrompt, lines 215-227.
Summary ==
  /\ pc = "summary"
  /\ Log("runSummaryPrompt")
  /\ \E ok \in BOOLEAN : pc' = IF ok THEN "title" ELSE "aborted"
  /\ UNCHANGED <<hostVars, dryRun, forceFull, titleUpdate, headSha, commits,
                 existingComments, overviewId, isIncremental, files, filesToReview,
                 commitsReviewed, lastCommitReviewed, compared, compareFiles,
                 commitsToReview, aliased, scopeIdx>>
  /\ UNCHANGED subVars
  /\ UNCHANGED <<fnVars, conVars>>

\* PR title update, lines 229-247 (not inside a try).
TitleUpdate ==
  /\ pc = "title"
  /\ IF titleUpdate /\ ~IS_DRY_RUN
     THEN /\ Log("pulls.update")
          /\ \E ok \in BOOLEAN : pc' = IF ok THEN "walkthrough" ELSE "aborted"
     ELSE /\ pc' = "walkthrough" /\ UNCHANGED calls
  /\ UNCHANGED <<hostVars, dryRun, forceFull, titleUpdate, headSha, commits,
                 existingComments, overviewId, isIncremental, files, filesToReview,
                 commitsReviewed, lastCommitReviewed, compared, compareFiles,
                 commitsToReview, aliased, scopeIdx>>
  /\ UNCHANGED subVars
  /\ UNCHANGED <<fnVars, conVars>>

\* Overview body with the payload of commits.map(c => c.sha), lines 249-265.
Walkthrough ==
  /\ pc = "walkthrough"
  /\ IF IS_DRY_RUN
     THEN /\ pc' = "review" /\ UNCHANGED <<hostComments, calls>>
     ELSE /\ Log("updateComment:walkthrough")
          /\ \E ok \in BOOLEAN :
               IF ok THEN /\ hostComments' = UpdateComment(hostComments, overviewId, buildOverviewMessage(commits))
                          /\ pc' = "review"
               ELSE /\ pc' = "aborted" /\ UNCHANGED hostComments
  /\ UNCHANGED <<hostCommits, hostFiles, nextId, covered, runs, dryRun, forceFull,
                 titleUpdate, headSha, commits, existingComments, overviewId,
                 isIncremental, files, filesToReview, commitsReviewed,
                 lastCommitReviewed, compared, compareFiles, commitsToReview, aliased,
                 scopeIdx>>
  /\ UNCHANGED subVars
  /\ UNCHANGED <<fnVars, conVars>>

\* One iteration of the scope loop, lines 302-320: a scope with no file is
\* skipped, otherwise the review prompt is called on its batch.
ReviewPass ==
  /\ pc = "review"
  /\ scopeIdx <= Len(Scopes)
  /\ IF filterFilesByScope(filesToReview, Scopes[scopeIdx]) = {}
     THEN /\ UNCHANGED calls
          /\ scopeIdx' = scopeIdx + 1
          /\ pc' = IF scopeIdx' > Len(Scopes) THEN "docs" ELSE "review"
     ELSE /\ Log("runReviewPrompt")
          /\ \E ok \in BOOLEAN :
               IF ok THEN /\ scopeIdx' = scopeIdx + 1
                          /\ pc' = IF scopeIdx' > Len(Scopes) THEN "docs" ELSE "review"
               ELSE /\ pc' = "aborted" /\ UNCHANGED scopeIdx
  /\ UNCHANGED <<hostVars, dryRun, forceFull, titleUpdate, headSha, commits,
                 existingComments, overviewId, isIncremental, files, filesToReview,
                 commitsReviewed, lastCommitReviewed, compared, compareFiles,
                 commitsToReview, aliased>>
  /\ UNCHANGED subVars
  /\ UNCHANGED <<fnVars, conVars>>

\* Consolidated documentation comment after analysis, lines 336-363.
PostDocs ==
  /\ pc = "docs"
  /\ DocWrite
  /\ pc' = "combined"
  /\ UNCHANGED <<hostCommits, hostFiles, covered, runs, dryRun, forceFull, titleUpdate,
                 headSha, commits, existingComments, overviewId, isIncremental, files,
                 filesToReview, commitsReviewed, lastCommitReviewed, compared,
                 compareFiles, commitsToReview, aliased, scopeIdx>>
  /\ UNCHANGED subVars
  /\ UNCHANGED <<fnVars, conVars>>

\* Second overview update (summary + rationale), lines 365-407; a throw is
\* caught.  A dry run returns after it.
Combined ==
  /\ pc = "combined"
  /\ IF IS_DRY_RUN
     THEN /\ pc' = "done" /\ UNCHANGED <<hostComments, calls>>
     ELSE /\ Log("updateComment:combined")
          /\ \E ok \in BOOLEAN :
               hostComments' = IF ok THEN UpdateComment(hostComments, overviewId, buildOverviewMessage(commits))
                               ELSE hostComments
          /\ pc' = "submit"
  /\ UNCHANGED <<hostCommits, hostFiles, nextId, covered, runs, dryRun, forceFull,
                 titleUpdate, headSha, commits, existingComments, overviewId,
                 isIncremental, files, filesToReview, commitsReviewed,
                 lastCommitReviewed, compared, compareFiles, commitsToReview, aliased,
                 scopeIdx>>
  /\ UNCHANGED subVars
  /\ UNCHANGED <<fnVars, conVars>>

\* submitReview as seen from handlePullRequest, lines 409-421: the thread
\* listing may throw; the review that carries the summary body is created
\* and submitted (lines 774-826), with one more attempt on the fallback path
\* (lines 875-901).  The comment-level steps are those of SpecSubmit.
SubmitReviewCall ==
  /\ pc = "submit"
  /\ \E res \in {"threw", "posted", "fallback-posted", "warned"} :
       \/ /\ res = "threw"
          /\ Log("listReviewComments")
          /\ pc' = "aborted" /\ UNCHANGED covered
       \/ /\ res = "posted"
          /\ calls' = calls \o <<"createReview", "submitReview">>
          /\ covered' = covered \cup Range(commits)
          /\ pc' = "done"
       \/ /\ res = "fallback-posted"
          /\ calls' = calls \o <<"createReview", "createReviewComment", "createReview", "submitReview">>
          /\ covered' = covered \cup Range(commits)
          /\ pc' = "done"
       \/ /\ res = "warned"
          /\ calls' = calls \o <<"createReview">>
          /\ pc' = "done" /\ UNCHANGED covered
  /\ UNCHANGED <<hostCommits, hostFiles, hostComments, nextId, runs, dryRun, forceFull,
                 titleUpdate, headSha, commits, existingComments, overviewId,
                 isIncremental, files, filesToReview, commitsReviewed,
                 lastCommitReviewed, compared, compareFiles, commitsToReview, aliased,
                 scopeIdx>>
  /\ UNCHANGED subVars
  /\ UNCHANGED <<fnVars, conVars>>

Next ==
  \/ Push
  \/ StartRun
  \/ ResolveScope
  \/ EarlyExit
  \/ PostLoading
  \/ Summary
  \/ TitleUpdate
  \/ Walkthrough
  \/ ReviewPass
  \/ PostDocs
  \/ Combined
  \/ SubmitReviewCall

Spec == Init /\ [][Next]_vars

\* SpecPayload: the same runs, started on a PR that already carries an
\* overview comment written for the first commits of the PR, its payload
\* block intact or damaged since.
Prefixes(cs) == {SubSeq(cs, 1, n) : n \in 1..Len(cs)}

PayloadInit ==
  /\ hostCommits \in Prefixes([i \in 1..MaxCommits |-> i])
  /\ hostFiles \in FileLists
  /\ \E stored \in Prefixes(hostCommits) : \E kind \in PayloadDamage \cup {"array"} :
       /\ hostComments = <<[id |-> 1, body |-> Damaged(buildOverviewMessage(stored), kind)]>>
       /\ covered = Range(stored)
  /\ nextId = 2
  /\ runs = 0
  /\ RunInit
  /\ SubInit
  /\ FnOff /\ ConOff

SpecPayload == PayloadInit /\ [][Next]_vars

\* ============================================================ submitReview
\* SpecSubmit: submitReview (src/src/pull_request.ts 424-906) called up to
\* MaxSubmits times in a row with the same findings, against a host whose
\* issue comments and review threads persist between the calls.  withRetries
\* is one step whose outcome is success (of some attempt) or exhaustion; a
\* failed host call leaves the host unchanged.  The files of the model carry
\* no hunks, so getUnifiedExcerpt yields nothing.

\* Review threads a PR can hold before the first call.
ThOld == [id |-> 101, path |-> "old.ts", line |-> 7, start_line |-> 0, relevant |-> TRUE]
ThA5 == [id |-> 102, path |-> "src/a.ts", line |-> 5, start_line |-> 0, relevant |-> TRUE]
ThA35 == [id |-> 103, path |-> "src/a.ts", line |-> 5, start_line |-> 3, relevant |-> TRUE]
ThNew7 == [id |-> 104, path |-> "new.ts", line |-> 7, start_line |-> 0, relevant |-> TRUE]
ThHuman == [id |-> 105, path |-> "src/a.ts", line |-> 5, start_line |-> 3, relevant |-> FALSE]

ThreadSets == { <<>>, <<ThOld, ThA5, ThA35, ThHuman, ThNew7>> }

SubmitFiles == <<FileA, FileN>>

\* The findings of a call: up to MaxFindings of them, repetitions included,
\* listed in the order of FindingOrder.
FindingOrder == <<FileNote, FileNoteReworded, SingleLine, MultiLine, OnRenamed, LowValue>>

FindingLists ==
  UNION {{[i \in 1..n |-> FindingOrder[f[i]]] :
            f \in {g \in [1..n -> 1..Len(FindingOrder)] :
                     \A i \in 1..(n - 1) : g[i] <= g[i + 1]}} : n \in 0..MaxFindings}

\* prThreadsAll.filter(isThreadRelevant)
RelevantThreads(ts) == SelectSeq(ts, LAMBDA t : t.relevant)

anchorComments == AnchorComments(srComments, lineComments, prThreads, srFiles)
replyCandidates == ReplyCandidates(srComments, lineComments, prThreads, srFiles)
batches == chunk(anchorComments, MAX_COMMENTS_PER_REVIEW)

\* One host call of submitReview as the host saw it: the finding (or batch)
\* index i, whether it succeeded, the root comment id t it replied to.
Entry(op, i, ok, how, t, lines) ==
  [op |-> op, i |-> i, ok |-> ok, how |-> how, t |-> t, lines |-> lines]
SLog(e) == slog' = Append(slog, e)

\* Host calls of the current call that failed (after their retries, where
\* they are retried).  At most MaxFaults calls fail per submitReview call.
Faults == Cardinality({k \in 1..Len(slog) : ~slog[k].ok})
Outcomes == IF Faults < MaxFaults THEN BOOLEAN ELSE {TRUE}
\* createReview then submitReview: both succeed, or one of them throws.
ReviewOutcomes ==
  IF Faults < MaxFaults THEN {"ok", "createFailed", "submitFailed"} ELSE {"ok"}

\* buildReviewSummary(...): the documentation block or, without one,
\* "Inline review comments have been posted."
ReviewSummaryLine == Text("Inline review comments have been posted.")
\* "Additional review comments (batch i/n)."
AdditionalLine(i, n) == [t |-> "additional", key |-> NoKey, i |-> i, n |-> n]

\* Faulty variant of ReviewBody: every batch carries the summary.
ReviewBody_AlwaysSummary(i, n) == <<ReviewSummaryLine>>

\* Body of the review of batch i of n (lines 816-825; i counts from 1).
ReviewBody(i, n) == IF i = 1 THEN <<ReviewSummaryLine>> ELSE <<AdditionalLine(i, n)>>

\* The thread roots a published review adds, one per comment of the batch.
NewThreads(batch, id) ==
  [k \in 1..Len(batch) |->
     LET cm == CommentData(srComments[batch[k]], srFiles, maxCodeblockLines) IN
     [id |-> id + k - 1, path |-> cm.path, line |-> cm.line, start_line |-> cm.start_line,
      relevant |-> TRUE]]

\* upsertIssueCommentBySignature(sig, body) taking effect on the host.
UpsertOk(sig, lines) ==
  LET k == UpsertTarget(hostComments, sig)
      body == [NoBody EXCEPT !.lines = lines]
  IN IF k # 0
     THEN /\ hostComments' = UpdateComment(hostComments, hostComments[k].id, body)
          /\ UNCHANGED <<nextId, createdSigs>>
     ELSE /\ hostComments' = CreateComment(hostComments, nextId, body)
          /\ nextId' = nextId + 1
          /\ createdSigs' = Append(createdSigs, sig)

UpsertHow(sig) == IF UpsertTarget(hostComments, sig) # 0 THEN "update" ELSE "create"

\* lineComments.find(c => c.file === cm.path && c.end_line === cm.line):
\* index into srComments, 0 when undefined.
OrigOf(cm) ==
  IF \E k \in 1..Len(lineComments) :
       srComments[lineComments[k]].file = cm.path /\ srComments[lineComments[k]].end_line = cm.line
  THEN lineComments[CHOOSE k \in 1..Len(lineComments) :
         /\ srComments[lineComments[k]].file = cm.path
         /\ srComments[lineComments[k]].end_line = cm.line
         /\ \A m \in 1..(k - 1) :
              ~(srComments[lineComments[m]].file = cm.path
                /\ srComments[lineComments[m]].end_line = cm.line)]
  ELSE 0

\* files.find(f => f.filename === p || f.previous_filename === p) is renamed
RenamedAt(fs, p) ==
  /\ \E i \in 1..Len(fs) : fs[i].filename = p \/ fs[i].previous_filename = p
  /\ LET i == CHOOSE i \in 1..Len(fs) :
                /\ (fs[i].filename = p \/ fs[i].previous_filename = p)
                /\ \A j \in 1..(i - 1) : ~(fs[j].filename = p \/ fs[j].previous_filename = p)
     IN fs[i].status = "renamed"

\* Signature and body of the top-level fallback comment (lines 842-869).
FallbackSig(cm) ==
  LET o == OrigOf(cm) IN
  makeUpsertSignature("fallback", resolveReviewPath(srFiles, cm.path), cm.line,
                      IF o = 0 THEN "" ELSE srComments[o].header, cm.body)

FallbackBody(cm) ==
  LET o == OrigOf(cm)
      target == resolveReviewPath(srFiles, cm.path)
  IN buildComment(
       <<FallbackSig(cm)>>
         \o cm.body
         \o <<Blank, ContextLine(target, cm.line)>>
         \o (IF RenamedAt(srFiles, target) THEN <<Blank, RenamedLine(target)>> ELSE <<>>)
         \o (IF o # 0 /\ srComments[o].header # "" THEN <<Blank, Text(srComments[o].header)>> ELSE <<>>)
         \o (IF o # 0 THEN CodeBlock(srComments[o]) ELSE <<>>),
       maxCodeblockLines)

\* submitInlineComment(file, line, content, startLine): the thread it replies
\* to (index into prThreads), 0 when it creates a review comment.
InlineThread(cm) ==
  IF cm.line > 0
  THEN findExistingThread(prThreads, resolveReviewPath(srFiles, cm.path), cm.line, cm.start_line)
  ELSE 0

SubmitInit ==
  /\ hostCommits = <<1>>
  /\ hostFiles = SubmitFiles
  /\ hostComments = <<>>
  /\ nextId = 1
  /\ covered = {}
  /\ runs = 0
  /\ RunInit
  /\ hostThreads \in ThreadSets
  /\ maxComments \in {1, MaxCap}
  /\ maxCodeblockLines \in {SmallCodeblockLines, DefaultCodeblockLines}
  /\ submits = 0
  /\ spc = "idle"
  /\ srFiles = SubmitFiles
  /\ srComments \in FindingLists
  /\ prThreads = <<>>
  /\ lineComments = <<>> /\ skippedComments = <<>>
  /\ fi = 1 /\ ri = 1 /\ bi = 1 /\ fj = 1
  /\ results = <<>> /\ slog = <<>> /\ createdSigs = <<>> /\ upsertedSigs = {}
  /\ FnOff /\ ConOff

subConfig == <<maxComments, maxCodeblockLines, srFiles, srComments>>

\* Entry of submitReview: the thread listing (lines 442-447) and, computed
\* from the parameters alone, the worth-posting filter and the cap
\* (lines 673-720).
SStart ==
  /\ spc \in {"idle", "done"}
  /\ submits < MaxSubmits
  /\ submits' = submits + 1
  /\ prThreads' = RelevantThreads(hostThreads)
  /\ lineComments' = CapLine(FilterLine(srComments), maxComments)
  /\ skippedComments' = CapSkipped(FilterLine(srComments), FilterSkipped(srComments), maxComments)
  /\ fi' = 1 /\ ri' = 1 /\ bi' = 1 /\ fj' = 1
  /\ results' = <<>>
  /\ slog' = <<>>
  /\ spc' = "fileLevel"
  /\ UNCHANGED <<hostVars, runVars, hostThreads, subConfig, createdSigs, upsertedSigs>>
  /\ UNCHANGED <<fnVars, conVars>>

\* One iteration of the file-level loop, lines 651-668: the upsert is
\* wrapped in withRetries and a throw is caught inside the loop.
SFileLevel ==
  /\ spc = "fileLevel"
  /\ LET fc == FileComments(srComments) IN
     IF fi > Len(fc)
     THEN /\ spc' = "replies"
          /\ UNCHANGED <<hostComments, nextId, fi, slog, createdSigs, upsertedSigs>>
     ELSE LET i == fc[fi]
              sig == FileNoteSig(srComments[i], srFiles)
              lines == FileNoteBody(srComments[i], srFiles, maxCodeblockLines)
          IN /\ fi' = fi + 1
             /\ UNCHANGED spc
             /\ \E ok \in Outcomes :
                  /\ SLog(Entry("upsert", i, ok, UpsertHow(sig), 0, lines))
                  /\ IF ok THEN /\ UpsertOk(sig, lines)
                                /\ upsertedSigs' = upsertedSigs \cup {sig}
                     ELSE UNCHANGED <<hostComments, nextId, createdSigs, upsertedSigs>>
  /\ UNCHANGED <<hostCommits, hostFiles, covered, runs, runVars, hostThreads, subConfig,
                 submits, prThreads, lineComments, skippedComments, ri, bi, fj, results>>
  /\ UNCHANGED <<fnVars, conVars>>

\* One iteration of the reply loop, lines 749-769: each reply is wrapped in
\* withRetries; the try encloses the whole loop, so a reply that exhausts
\* its retries ends the loop.
SReply ==
  /\ spc = "replies"
  /\ IF ri > Len(replyCandidates)
     THEN /\ spc' = "batches"
          /\ UNCHANGED <<ri, slog>>
     ELSE LET i == replyCandidates[ri]
              t == ThreadOfFinding(prThreads, srFiles, srComments[i])
          IN \E ok \in Outcomes :
               /\ SLog(Entry("reply", i, ok, "thread", prThreads[t].id, <<>>))
               /\ IF ok THEN /\ ri' = ri + 1 /\ UNCHANGED spc
                  ELSE /\ spc' = "batches" /\ UNCHANGED ri
  /\ UNCHANGED <<hostVars, runVars, hostThreads, subConfig, submits, prThreads,
                 lineComments, skippedComments, fi, bi, fj, results, createdSigs,
                 upsertedSigs>>
  /\ UNCHANGED <<fnVars, conVars>>

\* createReview then submitReview for an empty review or for batch bi
\* (lines 771-826).  A throw of either call of a batch starts the fallback.
SBatch ==
  /\ spc = "batches"
  /\ \E res \in ReviewOutcomes :
       LET how == IF Len(batches) = 0 THEN "empty" ELSE "batch"
           body == IF Len(batches) = 0 THEN <<ReviewSummaryLine>>
                   ELSE ReviewBody(bi, Len(batches))
           es == IF res = "createFailed"
                 THEN <<Entry("createReview", bi, FALSE, how, 0, <<>>)>>
                 ELSE <<Entry("createReview", bi, TRUE, how, 0, <<>>),
                        Entry("submitReview", bi, res = "ok", how, 0, body)>>
       IN /\ slog' = slog \o es
          /\ IF Len(batches) = 0
             THEN /\ spc' = "done"
                  /\ UNCHANGED <<hostThreads, nextId, bi, fj, results>>
             ELSE IF res = "ok"
             THEN /\ hostThreads' = hostThreads \o NewThreads(batches[bi], nextId)
                  /\ nextId' = nextId + Len(batches[bi])
                  /\ bi' = bi + 1
                  /\ spc' = IF bi + 1 > Len(batches) THEN "done" ELSE "batches"
                  /\ UNCHANGED <<fj, results>>
             ELSE /\ spc' = "fallback"
                  /\ fj' = 1
                  /\ results' = <<>>
                  /\ UNCHANGED <<hostThreads, nextId, bi>>
  /\ UNCHANGED <<hostCommits, hostFiles, hostComments, covered, runs, runVars, subConfig,
                 submits, prThreads, lineComments, skippedComments, fi, ri, createdSigs,
                 upsertedSigs>>
  /\ UNCHANGED <<fnVars, conVars>>

\* Per-comment fallback, lines 831-836: withRetries(submitInlineComment) for
\* comment fj of the batch.  processWithConcurrency runs three of them at a
\* time; their outcomes do not depend on one another, so they are taken in
\* index order.
SFallbackItem ==
  /\ spc = "fallback"
  /\ IF fj > Len(batches[bi])
     THEN /\ spc' = "fbupsert"
          /\ fj' = 1
          /\ UNCHANGED <<hostThreads, nextId, results, slog>>
     ELSE LET i == batches[bi][fj]
              cm == CommentData(srComments[i], srFiles, maxCodeblockLines)
              t == InlineThread(cm)
          IN /\ fj' = fj + 1
             /\ UNCHANGED spc
             /\ \E ok \in Outcomes :
                  /\ SLog(Entry(IF t # 0 THEN "inlineReply" ELSE "createReviewComment",
                                i, ok, "fallback",
                                IF t # 0 THEN prThreads[t].id ELSE 0, <<>>))
                  /\ results' = Append(results, ok)
                  /\ IF ok /\ t = 0
                     THEN /\ hostThreads' = Append(hostThreads,
                               [id |-> nextId, path |-> resolveReviewPath(srFiles, cm.path),
                                line |-> cm.line, start_line |-> 0, relevant |-> TRUE])
                          /\ nextId' = nextId + 1
                     ELSE UNCHANGED <<hostThreads, nextId>>
  /\ UNCHANGED <<hostCommits, hostFiles, hostComments, covered, runs, runVars, subConfig,
                 submits, prThreads, lineComments, skippedComments, fi, ri, bi,
                 createdSigs, upsertedSigs>>
  /\ UNCHANGED <<fnVars, conVars>>

\* Top-level fallback comment for result fj when it is rejected, lines
\* 838-874: one upsert, not retried, a throw is caught.
SFallbackUpsert ==
  /\ spc = "fbupsert"
  /\ IF fj > Len(results)
     THEN /\ spc' = "fbsummary"
          /\ UNCHANGED <<hostComments, nextId, fj, slog, createdSigs, upsertedSigs>>
     ELSE IF results[fj]
     THEN /\ fj' = fj + 1
          /\ UNCHANGED <<hostComments, nextId, spc, slog, createdSigs, upsertedSigs>>
     ELSE LET i == batches[bi][fj]
              cm == CommentData(srComments[i], srFiles, maxCodeblockLines)
              sig == FallbackSig(cm)
              lines == FallbackBody(cm)
          IN /\ fj' = fj + 1
             /\ UNCHANGED spc
             /\ \E ok \in Outcomes :
                  /\ SLog(Entry("fallbackUpsert", i, ok, UpsertHow(sig), 0, lines))
                  /\ IF ok THEN /\ UpsertOk(sig, lines)
                                /\ upsertedSigs' = upsertedSigs \cup {sig}
                     ELSE UNCHANGED <<hostComments, nextId, createdSigs, upsertedSigs>>
  /\ UNCHANGED <<hostCommits, hostFiles, covered, runs, runVars, hostThreads, subConfig,
                 submits, prThreads, lineComments, skippedComments, fi, ri, bi, results>>
  /\ UNCHANGED <<fnVars, conVars>>

\* Review summary on the fallback path of the first batch, lines 875-901,
\* then the next batch.
SFallbackSummary ==
  /\ spc = "fbsummary"
  /\ IF bi = 1
     THEN \E res \in ReviewOutcomes :
            slog' = slog \o
              (IF res = "createFailed"
               THEN <<Entry("createReview", bi, FALSE, "summary", 0, <<>>)>>
               ELSE <<Entry("createReview", bi, TRUE, "summary", 0, <<>>),
                      Entry("submitReview", bi, res = "ok", "summary", 0,
                            <<ReviewSummaryLine>>)>>)
     ELSE UNCHANGED slog
  /\ bi' = bi + 1
  /\ spc' = IF bi + 1 > Len(batches) THEN "done" ELSE "batches"
  /\ UNCHANGED <<hostVars, runVars, hostThreads, subConfig, submits, prThreads,
                 lineComments, skippedComments, fi, ri, fj, results, createdSigs,
                 upsertedSigs>>
  /\ UNCHANGED <<fnVars, conVars>>

SubmitNext ==
  \/ SStart
  \/ SFileLevel
  \/ SReply
  \/ SBatch
  \/ SFallbackItem
  \/ SFallbackUpsert
  \/ SFallbackSummary

SpecSubmit == SubmitInit /\ [][SubmitNext]_vars

\* ---------------------------------------------------------------------
\* SpecBatches: one call of submitReview with enough new anchored findings
\* to fill more than one review batch.  The findings are critical, sit on
\* distinct lines of src/a.ts and meet no existing thread; the configured
\* cap is above their number.
Anchored(k) == [file |-> "src/a.ts", start_line |-> 0, end_line |-> 10 + k, hl |-> FALSE,
                header |-> "", content |-> PlainContent, label |-> "", critical |-> TRUE]
ManyFindings(n) == [k \in 1..n |-> Anchored(k)]
\* No finding, as many as a review batch holds, or one more.
FindingCounts == {0, MAX_COMMENTS_PER_REVIEW, MAX_COMMENTS_PER_REVIEW + 1}

BatchesInit ==
  /\ hostCommits = <<1>>
  /\ hostFiles = SubmitFiles
  /\ hostComments = <<>>
  /\ nextId = 1
  /\ covered = {}
  /\ runs = 0
  /\ RunInit
  /\ hostThreads = <<>>
  /\ maxComments = 3 * MAX_COMMENTS_PER_REVIEW
  /\ maxCodeblockLines = DefaultCodeblockLines
  /\ submits = MaxSubmits - 1
  /\ spc = "idle"
  /\ srFiles = SubmitFiles
  /\ \E n \in FindingCounts : srComments = ManyFindings(n)
  /\ prThreads = <<>>
  /\ lineComments = <<>> /\ skippedComments = <<>>
  /\ fi = 1 /\ ri = 1 /\ bi = 1 /\ fj = 1
  /\ results = <<>> /\ slog = <<>> /\ createdSigs = <<>> /\ upsertedSigs = {}
  /\ FnOff /\ ConOff

SpecBatches == BatchesInit /\ [][SubmitNext]_vars

\* ---------------------------------------------------------------------
\* SpecFn: helper functions of src/src/pull_request.ts called on their own,
\* each on arguments chosen at FnInit.

RECURSIVE SumDiffs(_)
SumDiffs(hunks) == IF hunks = <<>> THEN 0 ELSE Head(hunks).diff + SumDiffs(Tail(hunks))

\* estimate(f), lines 274-278: the lengths of the hunk diffs (0 for a hunk
\* without diff), the length of the file name and 200 of overhead.
estimate(f) == SumDiffs(f.hunks) + f.nameLen + 200

\* Faulty variant of Overflows: an empty current batch is flushed too.
Overflows_IgnoringEmpty(current, size, s, maxChars) == size + s > maxChars

\* Faulty variant of Overflows: the size of the next file is not counted.
Overflows_NotCountingNext(current, size, s, maxChars) == current # <<>> /\ size > maxChars

\* Line 281: current.length && size + s > maxChars
Overflows(current, size, s, maxChars) == current # <<>> /\ size + s > maxChars

\* The loop of lines 279-289 over the remaining files fs.
RECURSIVE BatchLoop(_, _, _, _, _)
BatchLoop(fs, maxChars, bs, current, size) ==
  IF fs = <<>>
  THEN IF current # <<>> THEN Append(bs, current) ELSE bs
  ELSE LET f == Head(fs)
           s == estimate(f)
       IN IF Overflows(current, size, s, maxChars)
          THEN BatchLoop(Tail(fs), maxChars, Append(bs, current), <<f>>, s)
          ELSE BatchLoop(Tail(fs), maxChars, bs, Append(current, f), size + s)

batchFilesByChars(fs, maxChars) == BatchLoop(fs, maxChars, <<>>, <<>>, 0)

SeqsUpTo(S, n) == UNION {[1..k -> S] : k \in 0..n}

\* Files as batchFilesByChars sees them: estimates 205, 400 and 1000.
DiffFiles ==
  { [filename |-> "a.cls", nameLen |-> 5, hunks |-> <<>>],
    [filename |-> "b.cls", nameLen |-> 5, hunks |-> <<[diff |-> 100], [diff |-> 95]>>],
    [filename |-> "c.cls", nameLen |-> 5, hunks |-> <<[diff |-> 0], [diff |-> 795]>>] }
MaxCharsValues == {0, 205, 410, 700, 2000}

\* Files as filterFilesByScope sees them: up to MaxDirs directory segments
\* and an ending.
ScopeCalls ==
  {[fn |-> "filterFilesByScope",
    arg |-> [files |-> <<[filename |-> "generated", path |-> [dirs |-> ds, ext |-> e]]>>]] :
     ds \in SeqsUpTo(DirNames, MaxDirs), e \in Endings}

BatchCalls ==
  {[fn |-> "batchFilesByChars", arg |-> [files |-> fs, maxChars |-> m]] :
     fs \in SeqsUpTo(DiffFiles, MaxBatchFiles), m \in MaxCharsValues}

\* The overview body piece by piece, for encoding and decoding the payload
\* (src/unnamed/part_002 87-213, src/src/pull_request.ts 100-111).  A piece
\* is prose, one of the two payload tags (each starts with a line break),
\* the overview signature, or the JSON text of {commits: shas}.
Prose == [t |-> "prose", commits |-> <<>>]
TagOpen == [t |-> "open", commits |-> <<>>]       \* PAYLOAD_TAG_OPEN
TagClose == [t |-> "close", commits |-> <<>>]     \* PAYLOAD_TAG_CLOSE
OverviewSig == [t |-> "sig", commits |-> <<>>]    \* OVERVIEW_MESSAGE_SIGNATURE
\* JSON.stringify({commits: shas})
JsonOf(shas) == [t |-> "json", commits |-> shas]

\* summary.description.replace(/\s+/g, " ").trim(): no line break is left,
\* so a tag written in the description no longer is one.
collapseWhitespace(text) ==
  [i \in 1..Len(text) |-> IF text[i].t \in {"open", "close", "sig"} THEN Prose ELSE text[i]]

\* buildOverviewMessage(summary, commits, fileDiffs, rationale): the
\* rationale is trimmed and appended with its line breaks.
buildOverviewMessageText(description, shas, rationale) ==
  <<Prose>> \o collapseWhitespace(description) \o <<Prose>>
    \o (IF rationale # <<>> THEN <<Prose>> \o rationale ELSE <<>>)
    \o <<OverviewSig, TagOpen, JsonOf(shas), TagClose>>

\* body.indexOf(piece, from): 0 when there is none.
indexOf(body, kind, from) ==
  IF \E i \in from..Len(body) : body[i].t = kind
  THEN CHOOSE i \in from..Len(body) :
         body[i].t = kind /\ \A j \in from..(i - 1) : body[j].t # kind
  ELSE 0

\* Lines 101-109: the text between the first open tag and the first close
\* tag after it; <<>> stands for the default "{}".
payloadSlice(body) ==
  LET hasOpen == indexOf(body, "open", 1) # 0
      hasClose == indexOf(body, "close", 1) # 0
      start == indexOf(body, "open", 1) + 1
      end == indexOf(body, "close", start)
  IN IF hasOpen /\ hasClose /\ end > start THEN Slice(body, start, end - 1) ELSE <<>>

\* Lines 110-114: JSON.parse of the slice and Array.isArray(payload.commits);
\* a slice that is not one JSON text makes JSON.parse throw, which is caught.
decodePayload(body) ==
  LET js == payloadSlice(body) IN
  IF Len(js) = 1 /\ js[1].t = "json" THEN js[1].commits ELSE <<>>

TextPieces == {Prose, TagOpen, TagClose, JsonOf(<<9>>)}
CommitLists == {<<>>, <<1>>, <<1, 2>>, <<2, 1>>}
RoundTripCalls ==
  {[fn |-> "payloadRoundTrip",
    arg |-> [description |-> d, commits |-> cs, rationale |-> r]] :
     d \in SeqsUpTo(TextPieces, 1), cs \in CommitLists, r \in SeqsUpTo(TextPieces, MaxPieces)}

\* The paginated listings: pulls.listCommits (lines 46-60),
\* issues.listComments (63-77), pulls.listFiles (909-929) and
\* pulls.listReviewComments (src/src/comments.ts 40-49), all with
\* per_page = 100.  The host holds items 1..n and serves page p of them.
PER_PAGE == 100
Listings == {"listCommits", "listComments", "listFiles", "listReviewComments"}
ItemCounts == {0, 1, PER_PAGE - 1, PER_PAGE, PER_PAGE + 1, 2 * PER_PAGE, 2 * PER_PAGE + 1}
HostItems(n) == [k \in 1..n |-> k]
HostPage(items, page) ==
  Slice(items, (page - 1) * PER_PAGE + 1,
        IF page * PER_PAGE < Len(items) THEN page * PER_PAGE ELSE Len(items))

\* Faulty variant of ShortPage: the loop stops after any page.
ShortPage_Always(data) == TRUE

\* data.length < per_page
ShortPage(data) == Len(data) < PER_PAGE

ListingCalls == {[fn |-> l, arg |-> [items |-> HostItems(n)]] : l \in Listings, n \in ItemCounts}

\* parseFileDiff (src/src/diff.ts) as src/src/__tests__/diff.test.ts pins
\* it.  A patch is its hunks: the numbers of the hunk header and the first
\* character of each body line.  mockFile has the patch "@@ -1,5 +1,6 @@"
\* with seven body lines and a final line break; fileWithoutPatch has none.
mockFile ==
  [filename |-> "src/test.ts",
   patch |-> <<[oldStart |-> 1, oldLen |-> 5, newStart |-> 1, newLen |-> 6,
                body |-> <<" ", " ", "-", "+", "+", " ", " ">>]>>]
fileWithoutPatch == [filename |-> "src/binary.png", patch |-> <<>>]

\* The hunks the tests expect of parseFileDiff: startLine 1 and endLine 8
\* for mockFile (lines 16-17), no hunk for a file without patch (line 42).
parseFileDiff(file) ==
  IF file = mockFile THEN <<[startLine |-> 1, endLine |-> 8]>> ELSE <<>>

ParseCalls == {[fn |-> "parseFileDiff", arg |-> f] : f \in {mockFile, fileWithoutPatch}}

\* Start of a run: the Config constructor at module load
\* (src/unnamed/part_001 25-47, 83-97, 133-137), then handlePullRequest up
\* to its first host call (lines 24-60).  The PR description is a sequence
\* of words, blanks and colons.

\* new Config() throws: a required variable is missing.
ConfigThrows(env) ==
  \/ ~env.GITHUB_TOKEN
  \/ ~env.LLM_MODEL
  \/ ~env.LLM_API_KEY /\ env.LLM_PROVIDER # "sap-ai-sdk"
  \/ env.LLM_PROVIDER = "sap-ai-sdk" /\ ~env.SAP_AI_CORE

\* Faulty variant of ignorePhrases: the colon forms are missing.
ignorePhrases_NoColon ==
  << <<"@presubmit", " ", "ignore">>, <<"@presubmit", " ", "skip">>,
     <<"@presubmitai", " ", "ignore">>, <<"@presubmitai", " ", "skip">> >>

\* Lines 962-971.
ignorePhrases ==
  << <<"@presubmit", " ", "ignore">>, <<"@presubmit", ":", " ", "ignore">>,
     <<"@presubmit", " ", "skip">>, <<"@presubmit", ":", " ", "skip">>,
     <<"@presubmitai", " ", "ignore">>, <<"@presubmitai", ":", " ", "ignore">>,
     <<"@presubmitai", " ", "skip">>, <<"@presubmitai", ":", " ", "skip">> >>

\* text.includes(phrase)
includes(text, phrase) ==
  \E i \in 0..(Len(text) - Len(phrase)) : \A k \in 1..Len(phrase) : text[i + k] = phrase[k]

\* shouldIgnorePullRequest, lines 961-982; an undefined body is <<>>.
shouldIgnorePullRequest(body) ==
  LET bodyLower == [i \in 1..Len(body) |-> toLowerCase(body[i])] IN
  \E p \in 1..Len(ignorePhrases) : includes(bodyLower, ignorePhrases[p])

EnvOk == [GITHUB_TOKEN |-> TRUE, LLM_MODEL |-> TRUE, LLM_API_KEY |-> TRUE,
          LLM_PROVIDER |-> "ai-sdk", SAP_AI_CORE |-> FALSE]
Envs == [GITHUB_TOKEN : BOOLEAN, LLM_MODEL : BOOLEAN, LLM_API_KEY : BOOLEAN,
         LLM_PROVIDER : {"ai-sdk", "sap-ai-sdk"}, SAP_AI_CORE : BOOLEAN]
EventNames == {"pull_request", "pull_request_target", "push"}
BodyWords == {"@presubmit", "@PreSubmitAI", ":", " ", "ignore", "SKIP", "now"}

\* Every environment and event with an empty description, and every
\* description with a working environment and a pull_request event.
StartCalls ==
  {[fn |-> "handlePullRequest",
    arg |-> [env |-> e, eventName |-> ev, hasPullRequest |-> pr, body |-> <<>>]] :
     e \in Envs, ev \in EventNames, pr \in BOOLEAN}
  \cup
  {[fn |-> "handlePullRequest",
    arg |-> [env |-> EnvOk, eventName |-> "pull_request", hasPullRequest |-> TRUE, body |-> b]] :
     b \in SeqsUpTo(BodyWords, MaxBodyWords)}

\* isSalesforceFile, lines 932-951.
isSalesforceFile(p) ==
  LET extHits == \E e \in {".cls", ".trigger", ".apex", ".tst", ".page", ".cmp",
                           ".component", ".resource", "-meta.xml"} : endsWith(p, e)
      pathHits == includesDir(p, "lwc") \/ includesDir(p, "aura")
      lwcFiles == \E e \in {".js", ".ts", ".html", ".css", ".xml"} : endsWith(p, e)
  IN extHits \/ (pathHits /\ lwcFiles)

\* Faulty variant of shouldUseSalesforce: the mode is not looked at.
shouldUseSalesforce_AutoOnly(fs, mode) == \E i \in 1..Len(fs) : isSalesforceFile(fs[i].path)

\* shouldUseSalesforce(files, mode), lines 953-958; "" is an unset mode.
shouldUseSalesforce(fs, mode) ==
  LET m == toLowerCase(IF mode = "" THEN "auto" ELSE mode) IN
  IF m = "on" THEN TRUE
  ELSE IF m = "off" THEN FALSE
  ELSE \E i \in 1..Len(fs) : isSalesforceFile(fs[i].path)

\* Files of an analysis batch: src/app.ts, force-app/lwc/x.js, src/x.js,
\* force-app/classes/A.CLS and a flow.
PromptFiles ==
  { [filename |-> "src/app.ts", path |-> [dirs |-> <<"src">>, ext |-> ".ts"]],
    [filename |-> "force-app/lwc/x.js", path |-> [dirs |-> <<"force-app", "lwc">>, ext |-> ".js"]],
    [filename |-> "src/x.js", path |-> [dirs |-> <<"src">>, ext |-> ".js"]],
    [filename |-> "force-app/classes/A.CLS", path |-> [dirs |-> <<"force-app", "classes">>, ext |-> ".CLS"]],
    [filename |-> FileF.filename, path |-> FileF.path] }
Modes == {"on", "ON", "off", "Off", "auto", ""}
PromptCalls ==
  {[fn |-> "reviewBatch", arg |-> [files |-> fs, salesforceMode |-> m]] :
     fs \in SeqsUpTo(PromptFiles, MaxBatchFiles) \ {<<>>}, m \in Modes}

\* withRetries(fn, attempts = 3), lines 520-532.  The argument is what fn
\* does at its first, second, ... call: it fulfils with a value or rejects
\* with an error.  The state of the loop: the calls made, the sleeps made
\* (milliseconds), and how the call ends.
ATTEMPTS == 3

\* Faulty variant of IsLastAttempt: the loop sleeps after every failure.
IsLastAttempt_Never(i) == FALSE

\* if (i === attempts - 1) break
IsLastAttempt(i) == i = ATTEMPTS - 1

RECURSIVE RetryLoop(_, _, _)
RetryLoop(script, i, st) ==
  IF i >= ATTEMPTS THEN [st EXCEPT !.status = "threw"]
  ELSE LET r == script[i + 1]
           called == [st EXCEPT !.calls = @ + 1, !.value = r.v]
       IN IF r.ok THEN [called EXCEPT !.status = "returned"]
          ELSE IF IsLastAttempt(i) THEN [called EXCEPT !.status = "threw"]
          ELSE RetryLoop(script, i + 1, [called EXCEPT !.sleeps = Append(@, 250 * (i + 1))])

withRetries(script) ==
  RetryLoop(script, 0, [calls |-> 0, sleeps |-> <<>>, status |-> "running", value |-> "none"])

FnOutcomes == {[ok |-> TRUE, v |-> "v1"], [ok |-> TRUE, v |-> "v2"],
               [ok |-> FALSE, v |-> "e1"], [ok |-> FALSE, v |-> "e2"]}
RetryCalls ==
  {[fn |-> "withRetries", arg |-> script] : script \in [1..(ATTEMPTS + 1) -> FnOutcomes]}

\* The inline-comment cap of the Config constructor, src/unnamed/part_001
\* lines 72-74.  The configured text is a sequence of characters; "" (the
\* empty sequence) is a variable that is not set.
MaxDigits == 2
CapChars == {"0", "1", "4", "9", "a", "-"}

\* The value of a character as a digit, 99 for a character that is none.
DigitValue(c) ==
  CASE c = "0" -> 0 [] c = "1" -> 1 [] c = "4" -> 4 [] c = "9" -> 9
    [] c = "a" -> 10 [] OTHER -> 99

\* parseInt(text, radix): an optional sign, then the longest run of digits
\* of the radix; NaN (finite = FALSE) when there is no digit.
RECURSIVE DigitsPrefix(_, _)
DigitsPrefix(text, radix) ==
  IF text = <<>> \/ DigitValue(Head(text)) >= radix THEN <<>>
  ELSE <<DigitValue(Head(text))>> \o DigitsPrefix(Tail(text), radix)

RECURSIVE ValueOf(_, _)
ValueOf(digits, radix) ==
  IF digits = <<>> THEN 0
  ELSE ValueOf(SubSeq(digits, 1, Len(digits) - 1), radix) * radix + digits[Len(digits)]

parseInt(text, radix) ==
  LET negative == text # <<>> /\ Head(text) = "-"
      digits == DigitsPrefix(IF negative THEN Tail(text) ELSE text, radix)
  IN IF digits = <<>> THEN [finite |-> FALSE, n |-> 0]
     ELSE [finite |-> TRUE,
           n |-> IF negative THEN 0 - ValueOf(digits, radix) ELSE ValueOf(digits, radix)]

\* Lines 72-74: parsedMax = maxCommentsEnv && parseInt(maxCommentsEnv, 20);
\* maxComments = Number.isFinite(parsedMax) && parsedMax > 0 ? parsedMax : 40
MaxCommentsOf(text) ==
  LET parsedMax == IF text = <<>> THEN [finite |-> FALSE, n |-> 0] ELSE parseInt(text, 20)
  IN IF parsedMax.finite /\ parsedMax.n > 0 THEN parsedMax.n ELSE 40

CapCalls == {[fn |-> "maxComments", arg |-> text] : text \in SeqsUpTo(CapChars, MaxDigits)}

FnCalls ==
  BatchCalls \cup ScopeCalls \cup RoundTripCalls \cup ListingCalls \cup ParseCalls
    \cup StartCalls \cup PromptCalls \cup RetryCalls
    \cup CapCalls

FnInit ==
  /\ hostCommits = <<1>>
  /\ hostFiles = <<FileA>>
  /\ hostComments = <<>>
  /\ nextId = 1
  /\ covered = {}
  /\ runs = 0
  /\ RunInit
  /\ SubInit
  /\ \E c \in FnCalls : fn = c.fn /\ arg = c.arg
  /\ out = <<>>
  /\ fpc = "called"
  /\ ConOff

FnFixed == <<hostVars, runVars, subVars, fn, arg, conVars>>

CallBatchFilesByChars ==
  /\ fn = "batchFilesByChars" /\ fpc = "called"
  /\ out' = batchFilesByChars(arg.files, arg.maxChars)
  /\ fpc' = "returned"
  /\ UNCHANGED FnFixed

\* filterFilesByScope(files, scope) for each of the three scopes.
CallFilterFilesByScope ==
  /\ fn = "filterFilesByScope" /\ fpc = "called"
  /\ out' = [sc \in Range(Scopes) |-> filterFilesByScope(arg.files, sc)]
  /\ fpc' = "returned"
  /\ UNCHANGED FnFixed

\* buildOverviewMessage, then the decoding of the next run.
CallPayloadRoundTrip ==
  /\ fn = "payloadRoundTrip" /\ fpc = "called"
  /\ out' = decodePayload(buildOverviewMessageText(arg.description, arg.commits, arg.rationale))
  /\ fpc' = "returned"
  /\ UNCHANGED FnFixed

\* One iteration of a listing loop: request the page, append its items,
\* stop on a short page, else go on to the next page.  out holds the page
\* number, the items collected and the pages requested so far.
FetchPage ==
  /\ fn \in Listings /\ fpc = "called"
  /\ LET page == IF out = <<>> THEN 1 ELSE out.page
         all == IF out = <<>> THEN <<>> ELSE out.all
         requested == IF out = <<>> THEN <<>> ELSE out.requested
         data == HostPage(arg.items, page)
     IN /\ out' = [page |-> IF ShortPage(data) THEN page ELSE page + 1,
                   all |-> all \o data,
                   requested |-> Append(requested, page)]
        /\ fpc' = IF ShortPage(data) THEN "returned" ELSE "called"
  /\ UNCHANGED FnFixed

CallParseFileDiff ==
  /\ fn = "parseFileDiff" /\ fpc = "called"
  /\ out' = parseFileDiff(arg)
  /\ fpc' = "returned"
  /\ UNCHANGED FnFixed

\* Module load of config: new Config() and loadInputs().
LoadConfig ==
  /\ fn = "handlePullRequest" /\ fpc = "called" /\ out = <<>>
  /\ out' = [warnings |-> 0, calls |-> <<>>]
  /\ fpc' = IF ConfigThrows(arg.env) THEN "threw" ELSE "called"
  /\ UNCHANGED FnFixed

\* handlePullRequest, lines 24-60: the event check, the payload check and
\* the ignore check, each returning early, then the first listing call.
EnterHandlePullRequest ==
  /\ fn = "handlePullRequest" /\ fpc = "called" /\ out # <<>>
  /\ out' = IF arg.eventName \notin {"pull_request", "pull_request_target"}
            THEN [out EXCEPT !.warnings = 1]
            ELSE IF ~arg.hasPullRequest
            THEN [out EXCEPT !.warnings = 1]
            ELSE IF shouldIgnorePullRequest(arg.body)
            THEN out
            ELSE [out EXCEPT !.calls = <<"listCommits">>]
  /\ fpc' = "returned"
  /\ UNCHANGED FnFixed

\* One iteration of the batch loop, lines 306-318: the runner is chosen
\* and called once.  out lists the prompts invoked.
ReviewBatch ==
  /\ fn = "reviewBatch" /\ fpc = "called"
  /\ out' = IF shouldUseSalesforce(arg.files, arg.salesforceMode)
            THEN <<"runReviewPromptSalesforce">>
            ELSE <<"runReviewPromptCore">>
  /\ fpc' = "returned"
  /\ UNCHANGED FnFixed

CallWithRetries ==
  /\ fn = "withRetries" /\ fpc = "called"
  /\ out' = withRetries(arg)
  /\ fpc' = IF out'.status = "returned" THEN "returned" ELSE "threw"
  /\ UNCHANGED FnFixed

LoadMaxComments ==
  /\ fn = "maxComments" /\ fpc = "called"
  /\ out' = MaxCommentsOf(arg)
  /\ fpc' = "returned"
  /\ UNCHANGED FnFixed

FnNext ==
  \/ CallBatchFilesByChars
  \/ LoadMaxComments
  \/ CallWithRetries
  \/ ReviewBatch
  \/ LoadConfig
  \/ EnterHandlePullRequest
  \/ CallParseFileDiff
  \/ FetchPage
  \/ CallPayloadRoundTrip
  \/ CallFilterFilesByScope

SpecFn == FnInit /\ [][FnNext]_vars

\* ===================================================== overlapping runs
\* Two runs on the same PR (two workflow jobs) each inside
\* upsertIssueCommentBySignature (lines 586-618), the file-level caller
\* wrapping it in withRetries (line 665).  Each await is a point where the
\* other run may take a step: the listing and the write are separate host
\* calls.  A worker holds its signature, the attempt it is in, and the
\* comment id its listing matched (0 for none).
Overlap == 2

UpsertSigs == {makeUpsertSignature("file-note", "src/a.ts", 0, "h0", <<>>),
               makeUpsertSignature("fallback", "src/a.ts", 5, "h5", <<>>)}
UpsertBody(sig) == [NoBody EXCEPT !.lines = <<sig, Text("note")>>]

UpsertInit ==
  /\ hostCommits = <<1>>
  /\ hostFiles = <<FileA>>
  /\ \E before \in SUBSET UpsertSigs :
       /\ Cardinality(before) <= 1
       /\ hostComments = IF before = {} THEN <<>>
                         ELSE <<[id |-> 1, body |-> UpsertBody(CHOOSE x \in before : TRUE)]>>
       /\ nextId = Cardinality(before) + 1
  /\ covered = {}
  /\ runs = 0
  /\ RunInit
  /\ SubInit
  /\ FnOff
  /\ workers \in [1..Overlap -> {[pc |-> "list", sig |-> x, attempt |-> 1, existing |-> 0] :
                                  x \in UpsertSigs}]
  /\ pool = <<>>

UpsertFixed == <<hostCommits, hostFiles, covered, runs, runVars, subVars, fnVars, pool>>

\* issuesApi.listComments and data.find, lines 590-603.
UList(r) ==
  /\ workers[r].pc = "list"
  /\ LET k == UpsertTarget(hostComments, workers[r].sig) IN
     workers' = [workers EXCEPT ![r].pc = "write",
                                ![r].existing = IF k = 0 THEN 0 ELSE hostComments[k].id]
  /\ UNCHANGED <<hostComments, nextId>>
  /\ UNCHANGED UpsertFixed

\* updateComment or createComment, lines 605-617; a throw is retried by
\* withRetries until the attempts are used up.
UWrite(r) ==
  /\ workers[r].pc = "write"
  /\ \E ok \in BOOLEAN :
       IF ok
       THEN /\ IF workers[r].existing # 0
               THEN /\ hostComments' = UpdateComment(hostComments, workers[r].existing,
                                                     UpsertBody(workers[r].sig))
                    /\ UNCHANGED nextId
               ELSE /\ hostComments' = CreateComment(hostComments, nextId, UpsertBody(workers[r].sig))
                    /\ nextId' = nextId + 1
            /\ workers' = [workers EXCEPT ![r].pc = "done"]
       ELSE /\ UNCHANGED <<hostComments, nextId>>
            /\ workers' = IF workers[r].attempt < ATTEMPTS
                          THEN [workers EXCEPT ![r].pc = "list", ![r].attempt = @ + 1,
                                               ![r].existing = 0]
                          ELSE [workers EXCEPT ![r].pc = "threw"]
  /\ UNCHANGED UpsertFixed

UpsertNext == \E r \in 1..Overlap : UList(r) \/ UWrite(r)

SpecUpsert == UpsertInit /\ [][UpsertNext]_vars

\* ============================================== processWithConcurrency
\* processWithConcurrency(items, worker, concurrency), lines 533-555, with
\* the items numbered from 1.  pool holds the locals of the call: idx (the
\* number of indexes handed out), results, and for the claims how often the
\* worker was invoked on each item and how each invocation settled.  A
\* pool worker is one run() coroutine: awaiting the invocation on item i,
\* or finished.  JavaScript runs each coroutine without interruption from
\* one await to the next.
MaxItems == 5

\* Faulty variant of CONCURRENCY: as many coroutines as there are items.
CONCURRENCY_Unbounded == MaxItems + 1

\* The concurrency passed at the call, line 835.
CONCURRENCY == 3

Min(a, b) == IF a < b THEN a ELSE b

PoolInit ==
  /\ hostCommits = <<1>>
  /\ hostFiles = <<FileA>>
  /\ hostComments = <<>>
  /\ nextId = 1
  /\ covered = {}
  /\ runs = 0
  /\ RunInit
  /\ SubInit
  /\ FnOff
  /\ workers = <<>>
  /\ \E n \in 0..MaxItems :
       pool = [pc |-> "called", n |-> n, idx |-> 0,
               results |-> [i \in 1..n |-> "empty"],
               invoked |-> [i \in 1..n |-> 0],
               outcome |-> [i \in 1..n |-> "pending"]]

PoolFixed == <<hostVars, runVars, subVars, fnVars>>

\* const i = idx++; if (i >= items.length) break; worker(items[i], i)
\* (lines 541-544) for coroutine w, given the pool state p and the workers
\* ws: the pair of the new pool state and the new workers.
TakeNext(p, ws, w) ==
  IF p.idx + 1 > p.n
  THEN [pool |-> [p EXCEPT !.idx = @ + 1],
        workers |-> [ws EXCEPT ![w] = [pc |-> "exit", i |-> 0]]]
  ELSE [pool |-> [p EXCEPT !.idx = @ + 1, !.invoked[p.idx + 1] = @ + 1],
        workers |-> [ws EXCEPT ![w] = [pc |-> "await", i |-> p.idx + 1]]]

\* Line 552: the coroutines are started one after the other, each running
\* to its first await.
RECURSIVE StartFrom(_, _, _)
StartFrom(p, ws, w) ==
  IF w > Len(ws) THEN [pool |-> p, workers |-> ws]
  ELSE LET t == TakeNext(p, ws, w) IN StartFrom(t.pool, t.workers, w + 1)

PoolStart ==
  /\ pool.pc = "called"
  /\ LET k == Min(CONCURRENCY, pool.n)
         t == StartFrom([pool EXCEPT !.pc = "running"],
                        [w \in 1..k |-> [pc |-> "new", i |-> 0]], 1)
     IN pool' = t.pool /\ workers' = t.workers
  /\ UNCHANGED PoolFixed

\* The invocation coroutine w awaits settles (lines 545-549): the result is
\* stored, then the coroutine takes the next index.
Settle(w) ==
  /\ pool.pc = "running"
  /\ workers[w].pc = "await"
  /\ \E res \in {"fulfilled", "rejected"} :
       LET i == workers[w].i
           t == TakeNext([pool EXCEPT !.results[i] = res, !.outcome[i] = res], workers, w)
       IN pool' = t.pool /\ workers' = t.workers
  /\ UNCHANGED PoolFixed

\* await Promise.all(workers); return results (lines 553-554).
PoolReturn ==
  /\ pool.pc = "running"
  /\ \A w \in 1..Len(workers) : workers[w].pc = "exit"
  /\ pool' = [pool EXCEPT !.pc = "returned"]
  /\ UNCHANGED workers
  /\ UNCHANGED PoolFixed

PoolNext ==
  \/ PoolStart
  \/ \E w \in 1..Len(workers) : Settle(w)
  \/ PoolReturn

SpecPool == PoolInit /\ [][PoolNext]_vars

\* ================================================================ claims
\* The run has computed its scope (lines 96-142 have executed).
ScopeResolved == pc \notin {"idle", "scope"}

IsDocWrite(c) == c \in {"updateComment:doc", "createComment:doc"}

\* C2: when every current commit sha is already in the stored commit list,
\* the run calls no analysis backend and issues no host write other than at
\* most one create-or-update of the documentation comment.
C2_EarlyExitPurity ==
  (/\ ScopeResolved
   /\ Len(commitsReviewed) > 0
   /\ Range(commits) \subseteq Range(commitsReviewed))
  => /\ \A i \in 1..Len(calls) : IsDocWrite(calls[i])
     /\ Len(calls) <= 1

\* A run that took the no-new-commits path and refreshed the documentation.
C2_Witness ==
  /\ pc = "done"
  /\ Len(commitsReviewed) > 0
  /\ Range(commits) \subseteq Range(commitsReviewed)
  /\ Len(calls) = 1

\* Position of a file name in a file list (0 when absent).
PosIn(fs, name) ==
  IF \E i \in 1..Len(fs) : fs[i].filename = name
  THEN CHOOSE i \in 1..Len(fs) : fs[i].filename = name
  ELSE 0

\* C3: in an incremental run whose lastReviewed differs from the head and
\* whose compare call returned a file list, filesToReview holds exactly the
\* PR files named in that list, in PR-list order.
C3_IncrementalExclusion ==
  (/\ ScopeResolved /\ pc # "aborted"
   /\ isIncremental
   /\ lastCommitReviewed # 0 /\ lastCommitReviewed # headSha
   /\ compared = "files")
  => /\ \A i \in 1..Len(files) :
          (files[i].filename \in compareFiles)
            <=> (\E j \in 1..Len(filesToReview) : filesToReview[j] = files[i])
     /\ \A j \in 1..Len(filesToReview) : PosIn(files, filesToReview[j].filename) # 0
     /\ \A j, k \in 1..Len(filesToReview) :
          j < k => PosIn(files, filesToReview[j].filename) < PosIn(files, filesToReview[k].filename)

\* An incremental run that kept some PR files and excluded others.
C3_Witness ==
  /\ pc = "done"
  /\ isIncremental /\ lastCommitReviewed # 0 /\ lastCommitReviewed # headSha
  /\ compared = "files"
  /\ Len(commitsToReview) > 0
  /\ Len(filesToReview) >= 1
  /\ Len(filesToReview) < Len(files)

\* C4: every commit sha recorded in the overview comment's payload has been
\* covered by a review that was actually posted.
C4_PayloadCoveredByReview ==
  \A i \in 1..Len(hostComments) :
    Range(DecodeCommits(hostComments[i].body)) \subseteq covered


\* ---------------------------------------------- claims about submitReview
Done == spc = "done"

\* Entries of the log of the current call that satisfy a predicate.
Logged(ok(_)) == {k \in 1..Len(slog) : ok(slog[k])}

HasLine(lines, l) == \E k \in 1..Len(lines) : lines[k] = l

\* Issue comments whose body carries a signature.
Carrying(sig) == {k \in 1..Len(hostComments) : HasLine(hostComments[k].body.lines, sig)}

FileNoteSigs == {FileNoteSig(srComments[i], srFiles) : i \in Range(FileComments(srComments))}

Count(seq, x) == Cardinality({k \in 1..Len(seq) : seq[k] = x})

\* C1: over any number of successive submitReview calls that produce the same
\* file-level finding, the PR never holds more than one PR-level comment
\* carrying that finding's upsert signature; once an upsert of it has
\* succeeded it holds exactly one, and that comment was created once, every
\* later call updating it.
C1_FileNoteUpsertedOnce ==
  \A sig \in FileNoteSigs :
    /\ Cardinality(Carrying(sig)) <= 1
    /\ Count(createdSigs, sig) <= 1
    /\ sig \in upsertedSigs => Cardinality(Carrying(sig)) = 1 /\ Count(createdSigs, sig) = 1

\* A second call has updated the comment the first call created.
C1_Witness ==
  /\ submits = 2
  /\ Done
  /\ \E sig \in FileNoteSigs :
       /\ Count(createdSigs, sig) = 1
       /\ Logged(LAMBDA e : e.op = "upsert" /\ e.ok /\ e.how = "update"
                            /\ HasLine(e.lines, sig)) # {}

\* Batches of the current call whose createReview or submitReview threw.
FailedBatches ==
  {slog[k].i : k \in Logged(LAMBDA e : e.op \in {"createReview", "submitReview"}
                                        /\ e.how = "batch" /\ ~e.ok)}

IndividuallyTried(i) ==
  Logged(LAMBDA e : e.op \in {"createReviewComment", "inlineReply"} /\ e.i = i) # {}

IndividuallyFailed(i) ==
  Logged(LAMBDA e : e.op \in {"createReviewComment", "inlineReply"} /\ e.i = i /\ ~e.ok) # {}

\* C5: when the review of a batch throws, every comment of the batch is tried
\* on its own, and for every comment whose own attempts all fail a top-level
\* comment upsert is attempted whose body contains Context: path:line; the
\* call still runs to its end.
C5_FallbackCarriesContext ==
  Done =>
    \A b \in FailedBatches : \A j \in 1..Len(batches[b]) :
      LET i == batches[b][j]
          cm == CommentData(srComments[i], srFiles, maxCodeblockLines)
      IN /\ IndividuallyTried(i)
         /\ IndividuallyFailed(i) =>
              Logged(LAMBDA e : /\ e.op = "fallbackUpsert"
                                /\ e.i = i
                                /\ HasLine(e.lines,
                                           ContextLine(resolveReviewPath(srFiles, cm.path),
                                                       cm.line))) # {}

Kept == Range(lineComments)

RepliedTo(i, id) == Logged(LAMBDA e : e.op \in {"reply", "inlineReply"} /\ e.i = i /\ e.t = id) # {}
Replied(i) == Logged(LAMBDA e : e.op \in {"reply", "inlineReply"} /\ e.i = i) # {}

\* The finding went to the host as a comment of a review batch.
Batched(i) ==
  \E b \in 1..Len(batches) :
    /\ i \in Range(batches[b])
    /\ Logged(LAMBDA e : e.op = "createReview" /\ e.how = "batch" /\ e.i = b) # {}

\* C6: a finding on new.ts (renamed from old.ts) whose end_line and
\* start_line equal the anchor of a relevant thread on old.ts is submitted as
\* a reply to that thread and not as a new anchored comment.
C6_RenamedThreadGetsReply ==
  Done =>
    \A i \in Kept : \A k \in 1..Len(prThreads) :
      (/\ srComments[i].file = FileN.filename
       /\ prThreads[k].path = FileN.previous_filename
       /\ prThreads[k].line = srComments[i].end_line
       /\ prThreads[k].start_line = srComments[i].start_line)
      => RepliedTo(i, prThreads[k].id) /\ ~Batched(i)

\* Indexed threads at the finding's (resolved path, end_line, start_line).
ThreadsFor(i) ==
  {k \in 1..Len(prThreads) :
     /\ prThreads[k].path = resolveReviewPath(srFiles, srComments[i].file)
     /\ prThreads[k].line = srComments[i].end_line
     /\ prThreads[k].start_line = srComments[i].start_line}

\* C7: every kept line-anchored finding is submitted in exactly one way: as
\* a reply to the root comment of the indexed thread at its (resolved path,
\* end_line, start_line) when there is one, otherwise as a new anchored
\* comment of a review batch; never both, never neither.
C7_ExactlyOneWay ==
  Done =>
    \A i \in Kept :
      IF ThreadsFor(i) # {}
      THEN /\ \E k \in ThreadsFor(i) : RepliedTo(i, prThreads[k].id)
           /\ ~Batched(i)
      ELSE /\ Batched(i)
           /\ ~Replied(i)

\* C8: when one reply, or one file-level upsert, fails after its retries,
\* every other reply and every other file-level upsert of the call is still
\* attempted.
C8_FailuresDoNotBlockOthers ==
  Done =>
    /\ \A i \in Range(replyCandidates) : Logged(LAMBDA e : e.op = "reply" /\ e.i = i) # {}
    /\ \A i \in Range(FileComments(srComments)) :
         Logged(LAMBDA e : e.op = "upsert" /\ e.i = i) # {}

\* C9: of the n line-anchored findings that pass the worth-posting filter,
\* the first min(n, k) are the ones submitted inline and the other
\* n - min(n, k) are appended, in order, to the skipped ones; every finding is
\* in exactly one of the two lists.
C9_CapSplitsInOrder ==
  spc # "idle" =>
    LET passing == FilterLine(srComments)
        n == Len(passing)
        k == maxComments
        m == IF n < k THEN n ELSE k
    IN /\ lineComments = SubSeq(passing, 1, m)
       /\ skippedComments = FilterSkipped(srComments) \o SubSeq(passing, m + 1, n)
       /\ Len(lineComments) = m
       /\ Range(lineComments) \cup Range(skippedComments) = 1..Len(srComments)
       /\ Range(lineComments) \cap Range(skippedComments) = {}
       /\ Range(anchorComments) \cup Range(replyCandidates) = Range(lineComments)
       /\ Done => \A i \in Range(anchorComments) : Batched(i)

\* More findings pass the filter than the cap admits.
C9_Witness ==
  /\ Done
  /\ Len(FilterLine(srComments)) > maxComments
  /\ Len(lineComments) = maxComments
  /\ \E i \in Range(lineComments) : Batched(i)
  /\ \E i \in Range(skippedComments) : srComments[i].end_line # 0 /\ WorthPosting(srComments[i])

\* The substance bar: 30 characters, a code fence or a risk keyword.
Substantive(c) == c.content.len >= 30 \/ HasCode(c) \/ c.content.kw

\* C10: a line-anchored finding is kept for inline posting when it is
\* critical or of a high-value label; one that is neither is kept exactly
\* when its content meets the substance bar, and is skipped otherwise.
C10_WorthPostingRule ==
  spc # "idle" =>
    \A i \in 1..Len(srComments) :
      srComments[i].end_line # 0 =>
        LET c == srComments[i]
            kept == i \in Range(FilterLine(srComments))
        IN IF c.critical \/ c.label \in HIGH_VALUE_LABELS
           THEN kept
           ELSE kept <=> Substantive(c)


\* The issue comments whose body holds every line of a finding's content.
Showing(c) ==
  {k \in 1..Len(hostComments) :
     \A n \in 1..Len(c.content.lines) : HasLine(hostComments[k].body.lines, c.content.lines[n])}

\* C11: a file-level finding whose content differs from that of an already
\* posted file-level finding of the same file and header gets a different
\* upsert signature and a PR-level comment of its own; the comment posted
\* before is not overwritten.
C11_RewordedNoteKeepsEarlier ==
  \A i, j \in Range(FileComments(srComments)) :
    (/\ srComments[i].file = srComments[j].file
     /\ srComments[i].header = srComments[j].header
     /\ srComments[i].content # srComments[j].content)
    => \A a, b \in 1..Len(slog) :
         (/\ a < b
          /\ slog[a].op = "upsert" /\ slog[a].i = i /\ slog[a].ok
          /\ slog[b].op = "upsert" /\ slog[b].i = j /\ slog[b].ok)
         => /\ FileNoteSig(srComments[i], srFiles) # FileNoteSig(srComments[j], srFiles)
            /\ slog[b].how = "create"
            /\ Showing(srComments[i]) # {}


\* ------------------------------------------ claims about the scope of a run
NoAnalysis == \A i \in 1..Len(calls) : calls[i] \notin Analysis

\* C12: in an incremental run, when the last element of the stored commit
\* list is the PR head sha no commit is new: commitsToReview is empty and the
\* run takes the early exit, without a compare call and without analysis.
C12_HeadReviewedExitsEarly ==
  (/\ ScopeResolved
   /\ isIncremental
   /\ lastCommitReviewed # 0
   /\ lastCommitReviewed = headSha)
  => /\ commitsToReview = <<>>
     /\ compared = "none"
     /\ pc \in {"early", "done"}
     /\ NoAnalysis

\* An incremental run on several commits whose stored list ends with the head.
C12_Witness ==
  /\ pc = "done"
  /\ isIncremental
  /\ Len(commits) >= 2
  /\ lastCommitReviewed = headSha
  /\ commitsToReview = <<>>

\* The overview comment the run found, as listed at its start.
OverviewBody == existingComments[FindOverview(existingComments)].body

\* C13: whatever is wrong with the payload block of the overview comment
\* (a tag missing, the close tag not after the open tag, text that is not
\* JSON, JSON without a commits array), decoding it does not make the run
\* fail and yields an empty stored list: every current commit and every PR
\* file is in scope and no compare call is made.
C13_DamagedPayloadFailsOpen ==
  (/\ ScopeResolved
   /\ isIncremental
   /\ PayloadJson(OverviewBody) # "array")
  => /\ commitsReviewed = <<>>
     /\ lastCommitReviewed = 0
     /\ compared = "none"
     /\ filesToReview = files
     /\ commitsToReview = commits
     /\ pc # "early"
     /\ pc = "aborted" => calls # <<>>

\* A run that went through analysis on an overview comment whose payload is
\* damaged although it lists every current commit.
C13_Witness ==
  /\ pc = "done"
  /\ isIncremental
  /\ PayloadJson(OverviewBody) # "array"
  /\ OverviewBody.open
  /\ Range(commits) \subseteq Range(OverviewBody.commits)
  /\ \E i \in 1..Len(calls) : calls[i] = "runReviewPrompt"

\* C14: when no comment carries the overview signature, or the forced-full
\* flag is set, the run is not incremental: no compare call is made,
\* filesToReview is every PR file and commitsToReview every current commit,
\* whatever payload an existing overview comment carries.
C14_FullReviewScope ==
  (/\ ScopeResolved
   /\ FindOverview(existingComments) = 0 \/ forceFull)
  => /\ ~isIncremental
     /\ commitsReviewed = <<>>
     /\ compared = "none"
     /\ filesToReview = files
     /\ commitsToReview = commits
     /\ pc # "early"

\* A forced full run that reviewed a PR whose intact payload already lists
\* every current commit.
C14_Witness ==
  /\ pc = "done"
  /\ forceFull
  /\ FindOverview(existingComments) # 0
  /\ PayloadJson(OverviewBody) = "array"
  /\ Range(commits) \subseteq Range(OverviewBody.commits)
  /\ \E i \in 1..Len(calls) : calls[i] = "runReviewPrompt"

\* C15: in dry-run mode no host write is issued along any path of
\* handlePullRequest: no comment create or update, no title update, no
\* review create or submit, no reply, no inline comment.
C15_DryRunWritesNothing ==
  dryRun => \A i \in 1..Len(calls) : calls[i] \notin Writes

\* A dry run that went through the title mention, the analysis and the
\* documentation of a PR that has some.
C15_Witness ==
  /\ dryRun
  /\ pc = "done"
  /\ titleUpdate
  /\ HasDocs(filesToReview)
  /\ \E i \in 1..Len(calls) : calls[i] = "runReviewPrompt"


\* ------------------------------------ claims about the host calls of a run
\* Create-or-update decisions handlePullRequest takes from a comment list.
ListDecisions == {"updateComment:loading", "createComment:loading",
                  "updateComment:doc", "createComment:doc"}

\* C16: every decision to create or to update a PR-level comment is taken
\* on a comment list read immediately before it: no analysis call and no
\* host write lies between the reading of the list and the decision.  (The
\* list a run decides on is the one read at its start, before its first call.)
C16_DecisionsOnFreshList ==
  \A i \in 1..Len(calls) :
    calls[i] \in ListDecisions
      => \A j \in 1..(i - 1) : calls[j] \notin Analysis \cup Writes

\* C17: a host write that fails does not abort the run; the run degrades to
\* a fallback or a warning and goes on.
C17_FailedWriteNotFatal ==
  pc = "aborted" => calls = <<>> \/ Last(calls) \notin Writes

AuxiliaryWrites == {"pulls.update", "updateComment:doc", "createComment:doc",
                    "updateComment:combined"}

\* C18: a failure of the title update, of the documentation comment write
\* or of the combined overview update is only warned about: the run goes on
\* to the review submission.
C18_AuxiliaryFailureNotFatal ==
  pc = "aborted" => calls = <<>> \/ Last(calls) \notin AuxiliaryWrites

LoadingWrites == {"updateComment:loading", "createComment:loading"}
ResultWrites == {"updateComment:doc", "createComment:doc", "createReview", "submitReview",
                 "createReplyForReviewComment", "createReviewComment"}

\* C19: in a run that is not a dry run and does not exit early, the loading
\* message is written to the overview comment before the first analysis
\* call, and no documentation comment, review, reply or inline comment is
\* written before the last analysis call has returned.
C19_LoadingThenAnalysisThenResults ==
  ~dryRun =>
    /\ \A i \in 1..Len(calls) :
         calls[i] \in Analysis
           => /\ \E j \in 1..(i - 1) : calls[j] \in LoadingWrites
              /\ FindOverview(hostComments) # 0
    /\ \A i \in 1..Len(calls) :
         calls[i] \in ResultWrites
           => \A j \in (i + 1)..Len(calls) : calls[j] \notin Analysis

\* A completed run with analysis, a documentation comment and a review.
C19_Witness ==
  /\ ~dryRun
  /\ pc = "done"
  /\ \E i \in 1..Len(calls) : calls[i] = "runReviewPrompt"
  /\ \E i \in 1..Len(calls) : calls[i] \in {"updateComment:doc", "createComment:doc"}
  /\ \E i \in 1..Len(calls) : calls[i] = "submitReview"


\* ------------------------------------------- claims about review batches
\* Reviews of the current call that were submitted with the summary body.
SummaryReviews ==
  {k \in 1..Len(slog) : /\ slog[k].op = "submitReview" /\ slog[k].ok
                        /\ HasLine(slog[k].lines, ReviewSummaryLine)}

\* Batch i of the current call fell back: its createReview or its
\* submitReview failed.
FellBack(i) ==
  \E k \in 1..Len(slog) :
    /\ slog[k].op \in {"createReview", "submitReview"}
    /\ slog[k].how = "batch" /\ slog[k].i = i /\ ~slog[k].ok

\* C20: at most one review of a call is submitted with the review summary
\* body, and exactly one when no host call failed.  It is the review of
\* the first batch, or a comment-less review when there is no new anchored
\* comment or when the first batch fell back; the review of every later
\* batch carries only the "Additional review comments (batch i/n)" marker.
C20_SummaryWithOneReview ==
  /\ Cardinality(SummaryReviews) <= 1
  /\ (Done /\ Faults = 0) => Cardinality(SummaryReviews) = 1
  /\ \A k \in SummaryReviews :
       \/ slog[k].how = "batch" /\ slog[k].i = 1
       \/ slog[k].how = "empty" /\ anchorComments = <<>>
       \/ slog[k].how = "summary" /\ slog[k].i = 1 /\ FellBack(1)
  /\ \A k \in 1..Len(slog) :
       (slog[k].op = "submitReview" /\ slog[k].how = "batch" /\ slog[k].i > 1)
         => slog[k].lines = <<AdditionalLine(slog[k].i, Len(batches))>>

\* The first batch fell back and the summary went out with a comment-less
\* review; the second batch was submitted with the marker.
C20_Witness ==
  /\ Done
  /\ Len(batches) >= 2
  /\ FellBack(1)
  /\ \E k \in SummaryReviews : slog[k].how = "summary"
  /\ \E k \in 1..Len(slog) :
       /\ slog[k].op = "submitReview" /\ slog[k].ok /\ slog[k].i = 2
       /\ slog[k].lines = <<AdditionalLine(2, Len(batches))>>


RECURSIVE Concat(_)
Concat(seqs) == IF seqs = <<>> THEN <<>> ELSE Head(seqs) \o Concat(Tail(seqs))

\* The batch (of bs) a logged host call belongs to: the batch of a review
\* call, the batch holding the finding of a fallback call, 0 for the other
\* calls.
BatchOf(e, bs) ==
  IF e.op \in {"createReview", "submitReview"} /\ e.how \in {"batch", "summary"} THEN e.i
  ELSE IF e.op \in {"inlineReply", "createReviewComment", "fallbackUpsert"}
       THEN CHOOSE b \in 1..Len(bs) : \E j \in 1..Len(bs[b]) : bs[b][j] = e.i
       ELSE 0

\* C21: the new anchored comments are split in order into batches of at
\* most 50 whose concatenation is the whole list, and the review of a batch
\* is created only after every host call of the earlier batches, their
\* fallback calls included.
C21_BatchesInOrderOneAtATime ==
  LET all == anchorComments
      bs == chunk(all, MAX_COMMENTS_PER_REVIEW)
  IN /\ \A b \in 1..Len(bs) : Len(bs[b]) \in 1..MAX_COMMENTS_PER_REVIEW
     /\ Concat(bs) = all
     /\ \A k \in 1..Len(slog) :
          (slog[k].op = "createReview" /\ slog[k].how = "batch" /\ slog[k].i > 1)
            => \A m \in (k + 1)..Len(slog) :
                 LET b == BatchOf(slog[m], bs) IN b = 0 \/ b >= slog[k].i

\* Fifty-one anchored comments in two batches; the first batch went through
\* its whole fallback (a per-comment posting failed and was upserted as a
\* top-level comment) before the review of the second batch was created.
C21_Witness ==
  /\ Done
  /\ Len(anchorComments) = MAX_COMMENTS_PER_REVIEW + 1
  /\ Len(batches) = 2
  /\ \E m \in 1..Len(slog) : slog[m].op = "fallbackUpsert" /\ BatchOf(slog[m], batches) = 1
  /\ \E k \in 1..Len(slog) :
       slog[k].op = "createReview" /\ slog[k].how = "batch" /\ slog[k].i = 2


\* ------------------------------------------ claims about helper functions
Returned(f) == fn = f /\ fpc = "returned"

\* C22: batchFilesByChars returns non-empty batches whose concatenation is
\* the file list in order, so every file is in exactly one batch; a file
\* whose own estimate exceeds maxChars is a batch alone.
C22_BatchesPartitionFiles ==
  Returned("batchFilesByChars") =>
    /\ \A b \in 1..Len(out) : out[b] # <<>>
    /\ Concat(out) = arg.files
    /\ \A b \in 1..Len(out) : \A j \in 1..Len(out[b]) :
         estimate(out[b][j]) > arg.maxChars => Len(out[b]) = 1

\* Three files, the first above maxChars on its own, the other two sharing
\* the second batch.
C22_Witness ==
  /\ Returned("batchFilesByChars")
  /\ Len(arg.files) = 3
  /\ estimate(arg.files[1]) > arg.maxChars
  /\ Len(out) = 2 /\ Len(out[1]) = 1 /\ Len(out[2]) = 2


\* C23: with the scopes data-model, flows and apex, filterFilesByScope
\* selects every file for exactly one scope.
C23_ExactlyOneScope ==
  Returned("filterFilesByScope") =>
    \A i \in 1..Len(arg.files) :
      Cardinality({sc \in Range(Scopes) : i \in out[sc]}) = 1


\* C25: decoding the body buildOverviewMessage produces for a list of
\* commit shas yields that list, whatever description and rationale text
\* the body also contains.
C25_PayloadRoundTrip ==
  Returned("payloadRoundTrip") => out = arg.commits


\* C24: a paginated listing requests pages 1, 2, ... in order, the list it
\* returns is the concatenation of the pages fetched, that is the whole
\* host list, and it returns exactly at the first page with fewer than 100
\* items: every earlier page was full, the last one is short.
C24_ListingsDrained ==
  (fn \in Listings /\ out # <<>>) =>
    /\ out.requested = [k \in 1..Len(out.requested) |-> k]
    /\ out.all = Concat([k \in 1..Len(out.requested) |-> HostPage(arg.items, k)])
    /\ \A k \in 1..(Len(out.requested) - 1) : Len(HostPage(arg.items, k)) = PER_PAGE
    /\ fpc = "returned" <=> Len(HostPage(arg.items, Len(out.requested))) < PER_PAGE
    /\ fpc = "returned" => out.all = arg.items

\* Two hundred items: two full pages, then the empty third page ends the loop.
C24_Witness ==
  /\ fn \in Listings /\ fpc = "returned"
  /\ Len(arg.items) = 2 * PER_PAGE
  /\ out.requested = <<1, 2, 3>>


\* C26: for each hunk with header "@@ -oldStart,oldLen +newStart,newLen @@"
\* parseFileDiff yields startLine = newStart and
\* endLine = newStart + newLen - 1, at least startLine.
C26_HunkRangeFromHeader ==
  Returned("parseFileDiff") =>
    /\ Len(out) = Len(arg.patch)
    /\ \A i \in 1..Len(out) :
         LET h == arg.patch[i]
             last == h.newStart + h.newLen - 1
         IN /\ out[i].startLine = h.newStart
            /\ out[i].endLine = IF last < h.newStart THEN h.newStart ELSE last


\* The description holds "@presubmit" or "@presubmitai", in any case, then
\* an optional colon, a blank and "ignore" or "skip", in any case.
HoldsIgnorePhrase(body) ==
  \E i \in 1..Len(body) :
    /\ toLowerCase(body[i]) \in {"@presubmit", "@presubmitai"}
    /\ \E j \in {i + 1, i + 2} :
         /\ j + 1 <= Len(body)
         /\ j = i + 2 => body[i + 1] = ":"
         /\ body[j] = " "
         /\ toLowerCase(body[j + 1]) \in {"ignore", "skip"}

\* C27: when the PR description holds an ignore or skip phrase, in any
\* case, the run stops before fetching commits: it returns without any
\* listing call, analysis call or host write.
C27_IgnoredRunCallsNothing ==
  (fn = "handlePullRequest" /\ fpc # "called" /\ HoldsIgnorePhrase(arg.body))
    => fpc = "returned" /\ out.calls = <<>>

\* The description "@PreSubmitAI: SKIP" was met and the run returned.
C27_Witness ==
  /\ fn = "handlePullRequest" /\ fpc = "returned"
  /\ arg.body = <<"@PreSubmitAI", ":", " ", "SKIP">>
  /\ out.calls = <<>>


\* A precondition whose failure is fatal to the run.
FatalPrecondition ==
  \/ ConfigThrows(arg.env)
  \/ arg.eventName \notin {"pull_request", "pull_request_target"}
  \/ ~arg.hasPullRequest

\* C29: a missing required credential or configuration value, an
\* unsupported event and a payload without pull_request each end the run
\* early with a logged warning, without a throw and before any host call.
C29_FatalPreconditionWarnsAndReturns ==
  (fn = "handlePullRequest" /\ fpc # "called" /\ FatalPrecondition)
    => fpc = "returned" /\ out.warnings > 0 /\ out.calls = <<>>


\* C28: for every analysis batch exactly one review prompt is invoked: the
\* Salesforce prompt in mode on, the general prompt in mode off even for
\* Salesforce files, and in mode auto (or with no mode) the Salesforce
\* prompt exactly when the batch holds a Salesforce file.
C28_OnePromptByMode ==
  Returned("reviewBatch") =>
    LET m == toLowerCase(arg.salesforceMode)
        hasSalesforceFile == \E i \in 1..Len(arg.files) : isSalesforceFile(arg.files[i].path)
    IN /\ Len(out) = 1
       /\ out[1] \in {"runReviewPromptSalesforce", "runReviewPromptCore"}
       /\ m = "on" => out[1] = "runReviewPromptSalesforce"
       /\ m = "off" => out[1] = "runReviewPromptCore"
       /\ m \in {"auto", ""} => (out[1] = "runReviewPromptSalesforce" <=> hasSalesforceFile)

\* Mode off with a Lightning web component file in the batch: the general
\* prompt was invoked.
C28_Witness ==
  /\ Returned("reviewBatch")
  /\ arg.salesforceMode = "Off"
  /\ \E i \in 1..Len(arg.files) : arg.files[i].filename = "force-app/lwc/x.js"
  /\ out = <<"runReviewPromptCore">>


\* The run reviewed its commits to the end: the review was submitted.
ReviewCompleted == pc = "done" /\ \E i \in 1..Len(calls) : calls[i] = "submitReview"

\* The commit list stored in the overview comment on the host.
StoredCommits ==
  LET k == FindOverview(hostComments) IN
  IF k = 0 THEN <<>> ELSE DecodeCommits(hostComments[k].body)

\* C30: after a run that reviews the host commit list [c1, ..., cn] (oldest
\* first) completes, the payload stored in the overview comment is exactly
\* [c1, ..., cn] in that order, so that its last element is the head commit
\* cn; for full and incremental runs and for n > 1.
C30_PayloadKeepsHostOrder ==
  (ReviewCompleted /\ Range(StoredCommits) = Range(hostCommits))
  => /\ StoredCommits = hostCommits
     /\ Last(StoredCommits) = headSha


\* A thread root this sequence of runs created (the threads found on the PR
\* at the start have ids above 100) at the resolved path and end line of
\* finding c, when every finding of the run at that anchor has the start
\* line of c: the root was posted for a finding with the triple of c.
PostedEarlier(c) ==
  /\ \E k \in 1..Len(prThreads) :
       /\ prThreads[k].id < 100
       /\ prThreads[k].path = resolveReviewPath(srFiles, c.file)
       /\ prThreads[k].line = c.end_line
  /\ \A j \in 1..Len(srComments) :
       (/\ resolveReviewPath(srFiles, srComments[j].file) = resolveReviewPath(srFiles, c.file)
        /\ srComments[j].end_line = c.end_line)
       => srComments[j].start_line = c.start_line

\* C31: a finding with the file, start_line and end_line of a finding an
\* earlier run posted as a new anchored comment is submitted as a reply in
\* that thread and not as a second thread root, single-line findings
\* (start_line = end_line) included.
C31_SameAnchorBecomesReply ==
  (submits >= 2 /\ spc # "idle")
  => \A k \in 1..Len(lineComments) :
       PostedEarlier(srComments[lineComments[k]])
       => /\ lineComments[k] \in Range(replyCandidates)
          /\ lineComments[k] \notin Range(anchorComments)


\* A step that starts a run, without the forced-full flag, right after a
\* non-dry run returned normally and with no push in between.
FollowsCompletedRun ==
  /\ pc = "done" /\ ~dryRun
  /\ runs' = runs + 1
  /\ ~forceFull'
  /\ Len(hostCommits) = Len(commits)

\* The listing the run started from holds an overview comment whose stored
\* list has every current commit, and the run is not forced.
StoredListCoversCommits ==
  /\ ~forceFull /\ isIncremental
  /\ Range(commits) \subseteq Range(DecodeCommits(OverviewBody))

\* C32: the run that immediately follows a completed non-dry run on the
\* same commit list, without the forced-full flag, takes the early exit:
\* it calls no analysis backend and creates no review, whatever the number
\* of commits.
C32_RerunExitsEarly ==
  /\ [][FollowsCompletedRun => StoredListCoversCommits']_vars
  /\ []((StoredListCoversCommits /\ pc # "idle")
        => /\ pc \in {"scope", "early", "done"} \/ (pc = "aborted" /\ compared = "threw")
           /\ NoAnalysis
           /\ \A i \in 1..Len(calls) : calls[i] \notin {"createReview", "submitReview"})

\* The second run on a PR of two or more commits whose first run posted a
\* review of all of them: it found the stored list, whose last element was
\* not the head, made the compare call and returned on the early exit.
C32_Witness ==
  /\ runs = 2 /\ pc = "done" /\ ~forceFull
  /\ Len(commits) >= 2
  /\ Range(commits) \subseteq covered
  /\ StoredListCoversCommits
  /\ lastCommitReviewed # headSha /\ compared # "none"
  /\ commitsToReview = <<>>


\* The run wrote the loading message and failed before the overview body
\* was written: its last call is a later call that threw.
AbortedAfterLoading ==
  /\ pc = "aborted"
  /\ \E i \in 1..Len(calls) : calls[i] \in LoadingWrites
  /\ Last(calls) \notin LoadingWrites
  /\ \A i \in 1..(Len(calls) - 1) : calls[i] # "updateComment:walkthrough"

\* An overview comment that is the loading message: the signature and no
\* payload block.
IsLoadingBody(b) == b.ov /\ ~b.open /\ ~b.close

\* C33: a run that overwrites the overview comment with the loading
\* message and aborts before the overview body is written leaves a comment
\* with the overview signature and no payload block, and a run that finds
\* such a comment takes the stored list as empty: every current commit and
\* every PR file is in scope, no compare call is made and the run does not
\* take the early exit.
C33_LoadingBodyMeansFullScope ==
  /\ AbortedAfterLoading
     => /\ FindOverview(hostComments) # 0
        /\ IsLoadingBody(hostComments[FindOverview(hostComments)].body)
  /\ (/\ ScopeResolved
      /\ FindOverview(existingComments) # 0
      /\ IsLoadingBody(OverviewBody))
     => /\ commitsReviewed = <<>>
        /\ Range(commitsToReview) = Range(commits)
        /\ Len(commitsToReview) = Len(commits)
        /\ filesToReview = files
        /\ compared = "none"
        /\ pc # "early"

\* The third run on a PR whose commits were all reviewed by the first run:
\* it found the loading message the aborted second run left, is not forced,
\* and called the review prompt.
C33_Witness ==
  /\ runs = 3 /\ ~forceFull /\ isIncremental
  /\ FindOverview(existingComments) # 0 /\ IsLoadingBody(OverviewBody)
  /\ Len(commits) >= 2
  /\ Range(commits) \subseteq covered
  /\ \A i \in 1..Len(calls) : calls[i] # "submitReview"
  /\ \E i \in 1..Len(calls) : calls[i] = "runReviewPrompt"


\* C34: when two overlapping runs upsert a PR-level comment with the same
\* upsert signature, no interleaving of their list-then-create/update
\* steps leaves more than one comment with that signature on the PR.
C34_OverlappingUpsertsKeepOne ==
  \A sig \in UpsertSigs : Cardinality(Carrying(sig)) <= 1


\* Comments of a list that carry the overview signature.
OverviewComments(cs) == {i \in 1..Len(cs) : cs[i].body.ov}

\* C35: after any sequence of non-overlapping runs (full, forced-full,
\* incremental or early-exit) at most one PR comment carries the overview
\* signature: a run creates the overview comment only when its listing
\* held none and otherwise updates the one it found.
C35_OneOverviewComment ==
  /\ Cardinality(OverviewComments(hostComments)) <= 1
  /\ \A i \in 1..Len(calls) :
       /\ calls[i] = "createComment:loading" => OverviewComments(existingComments) = {}
       /\ calls[i] = "updateComment:loading" => OverviewComments(existingComments) # {}

\* The third run, forced to a full review, found the overview comment of
\* the earlier runs and updated it; the PR holds one overview comment.
C35_Witness ==
  /\ runs = 3 /\ ~dryRun /\ forceFull /\ pc = "done"
  /\ \E i \in 1..Len(calls) : calls[i] = "updateComment:loading"
  /\ \E i \in 1..Len(calls) : calls[i] = "submitReview"
  /\ Cardinality(OverviewComments(hostComments)) = 1
  /\ Range(commits) \subseteq covered


\* ------------------------------------- claims about the small procedures
\* Invocations of the worker that have started and not settled.
InFlight == {w \in 1..Len(workers) : workers[w].pc = "await"}

\* C36: processWithConcurrency(items, worker, 3) invokes the worker exactly
\* once for every item, never has more than min(3, number of items)
\* invocations in flight, never rejects, and returns only after every
\* invocation has settled, with results[i] the outcome of items[i].
C36_PoolRunsEachItemOnce ==
  /\ pool.pc \in {"called", "running", "returned"}
  /\ Cardinality(InFlight) <= Min(3, pool.n)
  /\ \A i \in 1..pool.n : pool.invoked[i] <= 1
  /\ \A w \in InFlight : \A v \in InFlight : workers[w].i = workers[v].i => w = v
  /\ pool.pc = "returned"
     => /\ InFlight = {}
        /\ \A i \in 1..pool.n :
             /\ pool.invoked[i] = 1
             /\ pool.outcome[i] \in {"fulfilled", "rejected"}
             /\ pool.results[i] = pool.outcome[i]

\* Five items went through three coroutines and the call returned with a
\* rejected and a fulfilled result.
C36_Witness ==
  /\ pool.pc = "returned"
  /\ pool.n = 5
  /\ pool.results[1] = "rejected" /\ pool.results[5] = "fulfilled"
  /\ pool.idx = pool.n + Len(workers)


\* The first call of fn that fulfils, 0 when none of the first three does.
FirstSuccess(script) ==
  IF \E k \in 1..3 : script[k].ok
  THEN CHOOSE k \in 1..3 : script[k].ok /\ \A j \in 1..(k - 1) : ~script[j].ok
  ELSE 0

\* C37: withRetries(fn) calls fn at most 3 times, stops at the first call
\* that succeeds and returns its result, waits between consecutive attempts
\* only (after attempt i, never after the last one), and after 3 failures
\* throws the error of the last attempt.
C37_RetriesThreeTimes ==
  (fn = "withRetries" /\ fpc # "called")
  => LET k == FirstSuccess(arg) IN
     /\ out.calls <= 3
     /\ Len(out.sleeps) = out.calls - 1
     /\ \A i \in 1..Len(out.sleeps) : out.sleeps[i] = 250 * i
     /\ k # 0 => /\ fpc = "returned"
                 /\ out.calls = k
                 /\ out.value = arg[k].v
     /\ k = 0 => /\ fpc = "threw"
                 /\ out.calls = 3
                 /\ out.value = arg[3].v

\* fn failed three times with different errors and would have succeeded at
\* a fourth call: the error of the third attempt was thrown after two waits.
C37_Witness ==
  /\ fn = "withRetries" /\ fpc = "threw"
  /\ arg[1].v = "e1" /\ arg[2].v = "e1" /\ arg[3].v = "e2" /\ arg[4].ok
  /\ out.value = "e2"
  /\ out.sleeps = <<250, 500>>


\* C38: when a call of submitReview has ended, every finding handed to it
\* was routed, none lost: one without end_line went to the file-level
\* upsert, one with end_line is in
\* exactly one of the reply set, the new-anchored set and the skipped set,
\* and the inline list and the skipped list together hold every
\* line-anchored finding exactly once.
C38_EveryFindingRouted ==
  Done =>
    LET replies == Range(replyCandidates)
        anchors == Range(anchorComments)
        skipped == Range(skippedComments)
        fileLevel == Range(FileComments(srComments))
        both == lineComments \o skippedComments
    IN \A i \in 1..Len(srComments) :
         IF srComments[i].end_line = 0
         THEN /\ i \in fileLevel
              /\ i \notin replies \cup anchors
              /\ Logged(LAMBDA e : e.op = "upsert" /\ e.i = i) # {}
         ELSE /\ i \notin fileLevel
              /\ Cardinality({x \in {"reply", "anchor", "skipped"} :
                                \/ x = "reply" /\ i \in replies
                                \/ x = "anchor" /\ i \in anchors
                                \/ x = "skipped" /\ i \in skipped}) = 1
              /\ Count(both, i) = 1

\* A call whose two line-anchored findings went different ways: one is a
\* reply to a thread found on the PR, the other was cut by the cap or
\* anchored anew.
C38_Witness ==
  /\ Done
  /\ Len(srComments) = 2
  /\ \A i \in 1..2 : srComments[i].end_line # 0
  /\ Range(replyCandidates) # {}
  /\ Range(skippedComments) \cup Range(anchorComments) # {}


RECURSIVE SumEstimates(_)
SumEstimates(batch) ==
  IF batch = <<>> THEN 0 ELSE estimate(Head(batch)) + SumEstimates(Tail(batch))

\* C39: every batch of batchFilesByChars with two or more files has a
\* summed estimate of at most maxChars, and a batch ends only where adding
\* the next file to it would have exceeded maxChars.
C39_BatchesFitAndAreGreedy ==
  Returned("batchFilesByChars") =>
    /\ \A b \in 1..Len(out) :
         Len(out[b]) >= 2 => SumEstimates(out[b]) <= arg.maxChars
    /\ \A b \in 1..(Len(out) - 1) :
         SumEstimates(out[b]) + estimate(out[b + 1][1]) > arg.maxChars

\* Three files of estimates 205, 205 and 400 with maxChars 410: the first
\* two fill a batch exactly and the third starts the next one.
C39_Witness ==
  /\ Returned("batchFilesByChars")
  /\ arg.maxChars = 410
  /\ Len(out) = 2 /\ Len(out[1]) = 2 /\ Len(out[2]) = 1
  /\ SumEstimates(out[1]) = arg.maxChars
  /\ estimate(out[2][1]) = 400


\* The text is a decimal numeral: one or more characters 0-9.
IsDecimal(text) == text # <<>> /\ \A i \in 1..Len(text) : DigitValue(text[i]) < 10
DecimalValue(text) == ValueOf([i \in 1..Len(text) |-> DigitValue(text[i])], 10)

\* C40: the configured inline-comment cap is the decimal value of
\* REVIEW_MAX_COMMENTS (or of the max_comments input) when that is a
\* positive integer, and 40 otherwise; a configured 40 gives a cap of 40.
C40_CapIsDecimalValue ==
  Returned("maxComments") =>
    IF IsDecimal(arg) /\ DecimalValue(arg) > 0
    THEN out = DecimalValue(arg)
    ELSE out = 40

====
